---- MODULE Spec2Model ----
(***************************************************************************)
(* DC External Links: the save / delete action and the loader of the admin *)
(* route (src/unnamed/part_003), run against the remote metafield store;   *)
(* the loader's auto-install of the app block; the editor's change         *)
(* detection; and the storefront script (src/unnamed/part_000).            *)
(*                                                                         *)
(* Strings are sequences of one-character strings, so that trimming and    *)
(* JSON escaping are computed and not assumed.  A JSON text is a sequence  *)
(* of tokens.  Every remote call is issued by a handler step and answered  *)
(* by a separate step of the remote side, so calls of different requests   *)
(* interleave.                                                             *)
(***************************************************************************)
EXTENDS Integers, Sequences, FiniteSets, TLC

\* Longest list of editor rows a request is built from.
MaxLinks == 2
\* init calls of one page view, visible add-to-cart elements the theme adds
\* late, and clicks of one page view.
MaxInits == 3
MaxAtc == 1
MaxClicks == 1
\* Loader runs with the auto-install.
MaxLoads == 2
\* Times the product picker is opened.
MaxPicks == 2
\* Blocks listed in block_order of the section the app block is added to.
MaxBlocks == 3
\* The clock of the page: how far it runs and in which steps, in ms; the
\* childList mutations other scripts make.
MaxTime == 1500
TimeStep == 250
MaxMutations == 2
\* The delay of the observer's setTimeout, in ms.
initDelay == 500
\* retryAttempts as init passes it to initHideATC.
maxAttempts == 3

\* ------------------------------------------------------------------------
\* Strings
\* ------------------------------------------------------------------------
Quote == "\""
Backslash == "\\"
Space == " "

TrueStr == <<"t", "r", "u", "e">>
FalseStr == <<"f", "a", "l", "s", "e">>
OnStr == <<"o", "n">>
EmptyStr == <<>>

RECURSIVE TrimStart(_)
TrimStart(s) ==
    IF s # <<>> /\ Head(s) = Space THEN TrimStart(Tail(s)) ELSE s

RECURSIVE TrimEnd(_)
TrimEnd(s) ==
    IF s # <<>> /\ s[Len(s)] = Space THEN TrimEnd(SubSeq(s, 1, Len(s) - 1)) ELSE s

\* String.prototype.trim
Trim(s) == TrimEnd(TrimStart(s))

\* ------------------------------------------------------------------------
\* External links
\* ------------------------------------------------------------------------
ExternalLink(u, t, e) == [url |-> u, text |-> t, enabled |-> e]

\* Rows an editor can hold: a placeholder row whose url is blank, a plain
\* enabled link, and a disabled link with an empty label and a url that
\* needs escaping.
BlankRow == ExternalLink(<<Space>>, <<"B">>, TRUE)
LinkA == ExternalLink(<<"a">>, <<"A">>, TRUE)
LinkC == ExternalLink(<<"c", Quote>>, EmptyStr, FALSE)
LinkValues == {BlankRow, LinkA, LinkC}

SeqsUpTo(S, n) == UNION {[1..k -> S] : k \in 0..n}
EditorLists == SeqsUpTo(LinkValues, MaxLinks)
\* The lists without placeholder rows.
CompleteLists == SeqsUpTo({LinkA, LinkC}, MaxLinks)

isEmptyLink(link) == link.url = EmptyStr \/ Trim(link.url) = EmptyStr

\* links.filter(link => !isEmptyLink(link))
RECURSIVE NonEmptyLinks(_)
NonEmptyLinks(links) ==
    IF links = <<>> THEN <<>>
    ELSE IF isEmptyLink(Head(links)) THEN NonEmptyLinks(Tail(links))
    ELSE <<Head(links)>> \o NonEmptyLinks(Tail(links))

\* ------------------------------------------------------------------------
\* JSON.stringify / JSON.parse of an ExternalLink[]
\* ------------------------------------------------------------------------
Tok(k, s) == [k |-> k, s |-> s]

RECURSIVE Escape(_)
Escape(s) ==
    IF s = <<>> THEN <<>>
    ELSE IF Head(s) \in {Quote, Backslash}
         THEN <<Backslash, Head(s)>> \o Escape(Tail(s))
         ELSE <<Head(s)>> \o Escape(Tail(s))

\* The characters of a string literal, or <<"!">> when the literal is malformed
\* (a lone quote or a dangling backslash).
Malformed == <<"!", "!">>
RECURSIVE Unescape(_)
Unescape(s) ==
    IF s = <<>> THEN <<>>
    ELSE IF Head(s) = Quote THEN Malformed
    ELSE IF Head(s) = Backslash
         THEN IF Len(s) < 2 THEN Malformed
              ELSE LET rest == Unescape(SubSeq(s, 3, Len(s)))
                   IN IF rest = Malformed THEN Malformed ELSE <<s[2]>> \o rest
    ELSE LET rest == Unescape(Tail(s))
         IN IF rest = Malformed THEN Malformed ELSE <<Head(s)>> \o rest

LinkTokens(l) ==
    << Tok("{", <<>>),
       Tok("key", <<"url">>), Tok("str", Escape(l.url)), Tok(",", <<>>),
       Tok("key", <<"text">>), Tok("str", Escape(l.text)), Tok(",", <<>>),
       Tok("key", <<"enabled">>), Tok(IF l.enabled THEN "true" ELSE "false", <<>>),
       Tok("}", <<>>) >>

RECURSIVE ElemTokens_reversed(_)
ElemTokens_reversed(links) ==
    IF links = <<>> THEN <<>>
    ELSE IF Len(links) = 1 THEN LinkTokens(links[1])
    ELSE ElemTokens_reversed(Tail(links)) \o <<Tok(",", <<>>)>> \o LinkTokens(links[1])

RECURSIVE ElemTokens(_)
ElemTokens(links) ==
    IF links = <<>> THEN <<>>
    ELSE IF Len(links) = 1 THEN LinkTokens(links[1])
    ELSE LinkTokens(links[1]) \o <<Tok(",", <<>>)>> \o ElemTokens(Tail(links))

JSONstringify(links) == <<Tok("[", <<>>)>> \o ElemTokens(links) \o <<Tok("]", <<>>)>>

ObjLen == Len(LinkTokens(LinkA))

\* One object of the array, read from position i: the three members in the
\* order JSON.stringify writes them.
ParseObject(toks, i) ==
    IF /\ i + ObjLen - 1 <= Len(toks)
       /\ toks[i].k = "{"
       /\ toks[i + 1] = Tok("key", <<"url">>) /\ toks[i + 2].k = "str"
       /\ Unescape(toks[i + 2].s) # Malformed
       /\ toks[i + 3].k = ","
       /\ toks[i + 4] = Tok("key", <<"text">>) /\ toks[i + 5].k = "str"
       /\ Unescape(toks[i + 5].s) # Malformed
       /\ toks[i + 6].k = ","
       /\ toks[i + 7] = Tok("key", <<"enabled">>) /\ toks[i + 8].k \in {"true", "false"}
       /\ toks[i + 9].k = "}"
    THEN [ok |-> TRUE,
          val |-> ExternalLink(Unescape(toks[i + 2].s), Unescape(toks[i + 5].s),
                               toks[i + 8].k = "true")]
    ELSE [ok |-> FALSE, val |-> ExternalLink(EmptyStr, EmptyStr, FALSE)]

RECURSIVE ParseElems(_, _, _)
ParseElems(toks, i, acc) ==
    LET o == ParseObject(toks, i)
        j == i + ObjLen
    IN IF ~o.ok \/ j > Len(toks) THEN [ok |-> FALSE, val |-> <<>>]
       ELSE IF toks[j].k = "]"
            THEN [ok |-> j = Len(toks), val |-> IF j = Len(toks) THEN Append(acc, o.val) ELSE <<>>]
       ELSE IF toks[j].k = ","
            THEN ParseElems(toks, j + 1, Append(acc, o.val))
       ELSE [ok |-> FALSE, val |-> <<>>]

\* JSON.parse: ok = FALSE stands for the SyntaxError it throws.
JSONparse(toks) ==
    IF Len(toks) < 2 \/ toks[1].k # "[" THEN [ok |-> FALSE, val |-> <<>>]
    ELSE IF toks[2].k = "]" THEN [ok |-> Len(toks) = 2, val |-> <<>>]
    ELSE ParseElems(toks, 2, <<>>)

\* ------------------------------------------------------------------------
\* The remote metafield store, namespace bl_custom_button
\* ------------------------------------------------------------------------
Products == {"p1"}
Keys == {"external_links", "hide_atc", "button_text", "external_url", "is_enabled"}
LegacyKeys == {"button_text", "external_url", "is_enabled"}

\* An entry of the store; id 0 stands for "no entry under this key".
NoEntry == [id |-> 0, value |-> <<>>]
Entry(i, v) == [id |-> i, value |-> v]
NoEntries == [k \in Keys |-> NoEntry]

\* A product configured in the deprecated single-link shape.
LegacyEntries(enabledStr) ==
    [k \in Keys |->
        CASE k = "external_url" -> Entry(1, <<"l">>)
          [] k = "button_text" -> Entry(2, <<"L">>)
          [] k = "is_enabled" -> Entry(3, enabledStr)
          [] OTHER -> NoEntry]
\* A product saved earlier in the array form, with the hide flag on.
SavedEntries ==
    [k \in Keys |->
        CASE k = "external_links" -> Entry(1, JSONstringify(<<LinkA>>))
          [] k = "hide_atc" -> Entry(2, TrueStr)
          [] OTHER -> NoEntry]
FirstFreeId == Cardinality(LegacyKeys) + 1

ExistingKeys(entries) == {k \in Keys : entries[k].id # 0}

\* ------------------------------------------------------------------------
\* Requests
\* ------------------------------------------------------------------------
SlotOrder == <<"r1", "r2">>
Slots == {SlotOrder[i] : i \in DOMAIN SlotOrder}
NoProduct == "none"

\* Form data of a save request; an absent field and an empty one read the
\* same through `formData.get(..) || ""`, a checkbox is "on" or absent.
FormRow(l) == [url |-> l.url, text |-> l.text,
               enabled |-> IF l.enabled THEN OnStr ELSE EmptyStr]

\* saveProductConfiguration: blank rows are filtered out, the rest renumbered.
ButtonForm(p, rows, hide) ==
    LET validLinks == NonEmptyLinks(rows)
    IN [actionType |-> "save", productId |-> p,
        linkCount |-> Len(validLinks),
        rows |-> [i \in 1..Len(validLinks) |-> FormRow(validLinks[i])],
        hideAtc |-> IF hide THEN OnStr ELSE EmptyStr]

\* The <Form method="post"> around the editor rows: every row is a field set.
NativeForm(p, rows, hide) ==
    [actionType |-> "save", productId |-> p,
     linkCount |-> Len(rows),
     rows |-> [i \in 1..Len(rows) |-> FormRow(rows[i])],
     hideAtc |-> IF hide THEN OnStr ELSE EmptyStr]

\* handleDeleteProduct
DeleteForm(p) ==
    [actionType |-> "delete", productId |-> p, linkCount |-> 0, rows |-> <<>>,
     hideAtc |-> EmptyStr]

\* What else can be posted to the route: an unknown actionType, no productId.
OtherForms ==
    {[DeleteForm(p) EXCEPT !.actionType = "other"] : p \in Products}
    \cup {DeleteForm(NoProduct)}

\* The loop over link_i_* of the save branch.
ParseLinks(form) ==
    [i \in 1..form.linkCount |->
        IF i <= Len(form.rows)
        THEN ExternalLink(form.rows[i].url, form.rows[i].text, form.rows[i].enabled = OnStr)
        ELSE ExternalLink(EmptyStr, EmptyStr, FALSE)]

\* keysToKeep
KeysToKeep(hideAtc) == {"external_links"} \cup (IF hideAtc THEN {"hide_atc"} ELSE {})

\* metafieldsToDelete, as the set of its keys; existing maps a key to the id read.
MetafieldsToDelete_all(existing, hideAtc) == {k \in Keys : existing[k] # 0}
MetafieldsToDelete(existing, hideAtc) ==
    {k \in Keys : existing[k] # 0 /\ k \notin KeysToKeep(hideAtc)}

\* metafieldsToSave: key -> [id, value]; a key that is not saved maps to NoEntry
\* and is left out of the mutation, id 0 stands for "no id sent".
SaveEntry(i, v) == [send |-> TRUE, id |-> i, value |-> v]
NoSave == [send |-> FALSE, id |-> 0, value |-> <<>>]
MetafieldsToSave_createOnly(existing, links, hideAtc) ==
    [k \in Keys |->
        CASE k = "external_links" /\ existing[k] = 0 -> SaveEntry(0, JSONstringify(links))
          [] k = "hide_atc" /\ hideAtc -> SaveEntry(existing[k], TrueStr)
          [] OTHER -> NoSave]
MetafieldsToSave_skipEmpty(existing, links, hideAtc) ==
    [k \in Keys |->
        CASE k = "external_links" /\ links # <<>> -> SaveEntry(existing[k], JSONstringify(links))
          [] k = "hide_atc" /\ hideAtc -> SaveEntry(existing[k], TrueStr)
          [] OTHER -> NoSave]
MetafieldsToSave_noIds(existing, links, hideAtc) ==
    [k \in Keys |->
        CASE k = "external_links" -> SaveEntry(0, JSONstringify(links))
          [] k = "hide_atc" /\ hideAtc -> SaveEntry(0, TrueStr)
          [] OTHER -> NoSave]
MetafieldsToSave(existing, links, hideAtc) ==
    [k \in Keys |->
        CASE k = "external_links" -> SaveEntry(existing[k], JSONstringify(links))
          [] k = "hide_atc" /\ hideAtc -> SaveEntry(existing[k], TrueStr)
          [] OTHER -> NoSave]

NoExisting == [k \in Keys |-> 0]
IdsOf(entries) == [k \in Keys |-> entries[k].id]

Outcomes == {"ok", "errors", "userErrors", "throw"}
ReadOutcomes == {"ok", "errors", "throw"}

\* ------------------------------------------------------------------------
\* The loader's mapping of one product's entries
\* ------------------------------------------------------------------------
ValueOf(entries, k) == entries[k].value

RECURSIVE FirstEnabled(_)
FirstEnabled(links) ==
    IF links = <<>> THEN <<>>
    ELSE IF Head(links).enabled THEN <<Head(links)>>
    ELSE FirstEnabled(Tail(links))

\* productData of the loader: the new format first, the old one as a fallback.
ProductData(entries) ==
    LET hasNew == ValueOf(entries, "external_links") # <<>>
        parsed == JSONparse(ValueOf(entries, "external_links"))
        externalLinks == IF hasNew /\ parsed.ok THEN parsed.val ELSE <<>>
        enabledLink == FirstEnabled(externalLinks)
    IN [externalUrl |-> IF hasNew
                        THEN (IF enabledLink # <<>> THEN enabledLink[1].url ELSE EmptyStr)
                        ELSE ValueOf(entries, "external_url"),
        buttonText |-> IF hasNew
                       THEN (IF enabledLink # <<>> THEN enabledLink[1].text ELSE EmptyStr)
                       ELSE ValueOf(entries, "button_text"),
        isEnabled |-> IF hasNew THEN enabledLink # <<>>
                      ELSE ValueOf(entries, "is_enabled") = TrueStr,
        hideAtc |-> ValueOf(entries, "hide_atc") = TrueStr,
        hasMetafields |-> ExistingKeys(entries) # {},
        hasMultipleLinks |-> Len(externalLinks) > 1,
        externalLinks |-> externalLinks]

\* configuredProducts: the products whose hasMetafields is true.
ConfiguredProducts(st) == {p \in Products : ProductData(st[p]).hasMetafields}

\* ------------------------------------------------------------------------
\* The storefront script (src/unnamed/part_000): values and payload texts
\* ------------------------------------------------------------------------
\* A JavaScript value: its type tag and, by type, its content.
JsUndefined == [t |-> "undefined", b |-> FALSE, s |-> <<>>, m |-> <<>>]
JsNull == [t |-> "null", b |-> FALSE, s |-> <<>>, m |-> <<>>]
JsBool(b) == [t |-> "boolean", b |-> b, s |-> <<>>, m |-> <<>>]
JsNum(digits) == [t |-> "number", b |-> FALSE, s |-> digits, m |-> <<>>]
JsStr(chars) == [t |-> "string", b |-> FALSE, s |-> chars, m |-> <<>>]
\* An object is the sequence of its members <<name, value>>, an array the
\* sequence of its elements.
JsObj(members) == [t |-> "object", b |-> FALSE, s |-> <<>>, m |-> members]
JsArr(elems) == [t |-> "array", b |-> FALSE, s |-> <<>>, m |-> elems]

\* ToBoolean
Truthy(v) ==
    CASE v.t = "boolean" -> v.b
      [] v.t = "number" -> v.s \notin {<<"0">>, <<>>}
      [] v.t = "string" -> v.s # <<>>
      [] v.t \in {"object", "array"} -> TRUE
      [] OTHER -> FALSE

\* obj[name]: the last member of that name; a primitive has no own members.
RECURSIVE Member(_, _)
Member(members, name) ==
    IF members = <<>> THEN JsUndefined
    ELSE IF members[Len(members)][1] = name THEN members[Len(members)][2]
    ELSE Member(SubSeq(members, 1, Len(members) - 1), name)

Get(v, name) == IF v.t = "object" THEN Member(v.m, name) ELSE JsUndefined

\* Token kinds of a payload text beyond those JSON.stringify writes:
\* "rkey" is a quoted key followed by =>, "bkey" a bare word followed by a
\* colon, "ekey" and "estr" a key and a string whose quotes are written as
\* &quot;, "num" and "null" the literals, "junk" anything else.
\* The value of a scalar token.
ScalarOf(tok) ==
    CASE tok.k = "str" -> JsStr(Unescape(tok.s))
      [] tok.k = "true" -> JsBool(TRUE)
      [] tok.k = "false" -> JsBool(FALSE)
      [] tok.k = "num" -> JsNum(tok.s)
      [] OTHER -> JsNull

IsScalarTok(tok) ==
    \/ tok.k \in {"true", "false", "num", "null"}
    \/ tok.k = "str" /\ Unescape(tok.s) # Malformed

ParseFailed == [ok |-> FALSE, val |-> JsUndefined, next |-> 0]

\* The members of an object from position i on, up to its closing brace.
RECURSIVE ParseMembers(_, _, _)
ParseMembers(toks, i, acc) ==
    IF i + 2 > Len(toks) \/ toks[i].k # "key" \/ ~IsScalarTok(toks[i + 1]) THEN ParseFailed
    ELSE LET more == Append(acc, <<toks[i].s[1], ScalarOf(toks[i + 1])>>)
         IN IF toks[i + 2].k = "}" THEN [ok |-> TRUE, val |-> JsObj(more), next |-> i + 3]
            ELSE IF toks[i + 2].k = "," THEN ParseMembers(toks, i + 3, more)
            ELSE ParseFailed

\* A value that is not an array, from position i on: a scalar or a flat object.
ParseFlat(toks, i) ==
    IF i > Len(toks) THEN ParseFailed
    ELSE IF IsScalarTok(toks[i]) THEN [ok |-> TRUE, val |-> ScalarOf(toks[i]), next |-> i + 1]
    ELSE IF toks[i].k = "{"
         THEN IF i + 1 <= Len(toks) /\ toks[i + 1].k = "}"
              THEN [ok |-> TRUE, val |-> JsObj(<<>>), next |-> i + 2]
              ELSE ParseMembers(toks, i + 1, <<>>)
    ELSE ParseFailed

\* The elements of an array from position i on, up to its closing bracket;
\* e is the element read at i.
RECURSIVE ParseItems(_, _, _)
RECURSIVE AfterItem(_, _, _)
AfterItem(toks, acc, e) ==
    IF ~e.ok \/ e.next > Len(toks) THEN ParseFailed
    ELSE IF toks[e.next].k = "]"
         THEN [ok |-> TRUE, val |-> JsArr(Append(acc, e.val)), next |-> e.next + 1]
    ELSE IF toks[e.next].k = ","
         THEN ParseItems(toks, e.next + 1, Append(acc, e.val))
    ELSE ParseFailed
ParseItems(toks, i, acc) == AfterItem(toks, acc, ParseFlat(toks, i))

\* JSON.parse of a payload text whose arrays hold scalars and flat objects:
\* ok = FALSE stands for the SyntaxError.
ParsePrefix(toks) ==
    IF toks # <<>> /\ toks[1].k = "["
    THEN IF Len(toks) >= 2 /\ toks[2].k = "]"
         THEN [ok |-> TRUE, val |-> JsArr(<<>>), next |-> 3]
         ELSE ParseItems(toks, 2, <<>>)
    ELSE ParseFlat(toks, 1)
WholeText(toks, r) ==
    IF r.ok /\ r.next = Len(toks) + 1 THEN [ok |-> TRUE, val |-> r.val]
    ELSE [ok |-> FALSE, val |-> JsUndefined]
ParseValue(toks) == WholeText(toks, ParsePrefix(toks))

\* The second attempt: &quot; becomes a quote, => a colon, and a bare word
\* before a colon is quoted.
DecodeTok(tok) ==
    CASE tok.k \in {"rkey", "bkey", "ekey"} -> Tok("key", tok.s)
      [] tok.k = "estr" -> Tok("str", tok.s)
      [] OTHER -> tok
Decoded(toks) == [i \in DOMAIN toks |-> DecodeTok(toks[i])]

\* The payload as init and renderExternalButtons test it: blank, or the two
\* characters [].
BlankText(toks) == \A i \in DOMAIN toks : toks[i].k = "ws"
EmptyArrayPayload(toks) == toks = <<Tok("[", <<>>), Tok("]", <<>>)>>

\* What the two parse attempts of renderExternalButtons give.
FirstParsed(strict, legacy) == IF strict.ok THEN strict ELSE legacy
ParsePayload(toks) == FirstParsed(ParseValue(toks), ParseValue(Decoded(toks)))

\* The callback of externalLinks.filter on one element:
\* link.enabled && link.url && link.url.trim() !== ''.  Reading a property
\* of null is a TypeError, and so is calling trim on a truthy url that is not
\* a string.
FilterThrowsOn(link, enabled, url) ==
    \/ link.t \in {"null", "undefined"}
    \/ Truthy(enabled) /\ Truthy(url) /\ url.t # "string"
FilterThrows(link) == FilterThrowsOn(link, Get(link, "enabled"), Get(link, "url"))
FilterKeepsOn(link, enabled, url) ==
    /\ ~FilterThrowsOn(link, enabled, url)
    /\ Truthy(enabled)
    /\ Truthy(url)
    /\ Trim(url.s) # EmptyStr
FilterKeeps(link) == FilterKeepsOn(link, Get(link, "enabled"), Get(link, "url"))

\* The elements filter runs over; a value that is not an array has no filter
\* method, which is a TypeError.
HasFilter_wrapObject(v) == v.t \in {"array", "object"}
HasFilter(v) == v.t = "array"
Elements(v) == IF v.t = "array" THEN v.m ELSE <<v>>

RECURSIVE EnabledLinks(_)
EnabledLinks(elems) ==
    IF elems = <<>> THEN <<>>
    ELSE IF FilterKeeps(Head(elems)) THEN <<Head(elems)>> \o EnabledLinks(Tail(elems))
    ELSE EnabledLinks(Tail(elems))

\* createButton: data-external-url and the label, 'External Link' when the
\* text is falsy.
DefaultLabel == <<"E">>
Label(v) ==
    IF ~Truthy(v) THEN DefaultLabel
    ELSE IF v.t \in {"string", "number"} THEN v.s
    ELSE IF v.t = "boolean" THEN TrueStr
    ELSE DefaultLabel
createButton(link) == [url |-> Get(link, "url").s, text |-> Label(Get(link, "text"))]

\* renderExternalButtons(container, externalLinksData, productId): the
\* buttons the container holds afterwards.  Every exception is caught inside,
\* after the container was cleared.
Buttons(links) == [i \in DOMAIN links |-> createButton(links[i])]
RenderElements(elems) ==
    IF \E i \in DOMAIN elems : FilterThrows(elems[i]) THEN <<>>
    ELSE Buttons(EnabledLinks(elems))
RenderParsed(parsed) ==
    IF ~parsed.ok THEN <<>>
    ELSE IF ~HasFilter(parsed.val) THEN <<>>
    ELSE RenderElements(Elements(parsed.val))
renderExternalButtons(toks) ==
    IF BlankText(toks) \/ EmptyArrayPayload(toks) THEN <<>>
    ELSE RenderParsed(ParsePayload(toks))

\* ------------------------------------------------------------------------
\* isValidUrl: new URL(string) and its protocol
\* ------------------------------------------------------------------------
UpperCase == <<"A", "B", "C", "D", "E", "F", "G", "H", "I", "J", "K", "L", "M",
               "N", "O", "P", "Q", "R", "S", "T", "U", "V", "W", "X", "Y", "Z">>
LowerCase == <<"a", "b", "c", "d", "e", "f", "g", "h", "i", "j", "k", "l", "m",
               "n", "o", "p", "q", "r", "s", "t", "u", "v", "w", "x", "y", "z">>
ToLower(c) ==
    IF \E i \in DOMAIN UpperCase : UpperCase[i] = c
    THEN LowerCase[CHOOSE i \in DOMAIN UpperCase : UpperCase[i] = c]
    ELSE c
IsAlpha(c) == \E i \in DOMAIN LowerCase : LowerCase[i] = ToLower(c)
IsSchemeChar(c) == IsAlpha(c) \/ c \in {"0", "1", "2", "3", "4", "5", "6", "7", "8", "9", "+", "-", "."}

\* The position of the colon that ends the scheme, 0 when the text has no
\* scheme (with no base URL the constructor then throws).
RECURSIVE SchemeEnd(_, _)
SchemeEnd(s, i) ==
    IF i > Len(s) THEN 0
    ELSE IF s[i] = ":" THEN (IF i > 1 THEN i ELSE 0)
    ELSE IF (i = 1 /\ IsAlpha(s[i])) \/ (i > 1 /\ IsSchemeChar(s[i])) THEN SchemeEnd(s, i + 1)
    ELSE 0

RECURSIVE SkipSlashes(_)
SkipSlashes(s) ==
    IF s # <<>> /\ Head(s) \in {"/", Backslash} THEN SkipSlashes(Tail(s)) ELSE s

\* The host of a special-scheme URL: up to the next slash.
RECURSIVE HostOf(_)
HostOf(s) ==
    IF s = <<>> \/ Head(s) \in {"/", Backslash, "?", "#"} THEN <<>>
    ELSE <<Head(s)>> \o HostOf(Tail(s))

\* new URL(string): leading and trailing spaces are stripped, the scheme is
\* lower-cased, and an http(s) URL needs a host.  ok = FALSE stands for the
\* TypeError of the constructor.
NoUrl == [ok |-> FALSE, protocol |-> <<>>]
HttpProtocols == {<<"h", "t", "t", "p", ":">>, <<"h", "t", "t", "p", "s", ":">>}
UrlOf(protocol, host) ==
    IF protocol \in HttpProtocols /\ (host = <<>> \/ \E i \in DOMAIN host : host[i] = Space)
    THEN NoUrl
    ELSE [ok |-> TRUE, protocol |-> protocol]
SplitAt(s, e) ==
    IF e = 0 THEN NoUrl
    ELSE UrlOf([i \in 1..e |-> ToLower(s[i])], HostOf(SkipSlashes(SubSeq(s, e + 1, Len(s)))))
SplitUrl(s) == SplitAt(s, SchemeEnd(s, 1))
NewURL(string) == SplitUrl(Trim(string))

HasHttpProtocol_anyScheme(url) == url.ok
HasHttpProtocol(url) == url.ok /\ url.protocol \in HttpProtocols
isValidUrl(string) == HasHttpProtocol(NewURL(string))

VARIABLES
    store,      \* product -> key -> entry
    nextId,     \* next id the store hands out
    pc,         \* slot -> the await its handler stands at
    loc,        \* slot -> the handler's locals
    sent,       \* slot -> the editor rows and the hide flag its form was built from
    inflight,   \* slot -> remote calls issued and not yet answered
    calls,      \* slot -> the remote calls issued, in order
    seen,       \* slot -> the remote calls of its request that were answered with an error,
                \* "throw" when one of them threw, and "overwrite" when its productUpdate
                \* wrote an entry sent without id over an existing one
    result,     \* slot -> the json() the handler returned
    solo,       \* slot -> no other request on the same product overlapped or followed it
    loaded,     \* what the last loader run returned, until the store changes again
    lastWriter, \* product -> the slot whose productUpdate was applied last
    page,       \* the storefront page: script, container, observer timeout
    hides,      \* the initHideATC calls of the page, in order
    clicks,     \* the clicks handleExternalClick handled, in order
    install,    \* the auto-install: sentinel, theme and the loader run
    editor      \* the editor state hasUnsavedChanges compares

adminVars == <<store, nextId, pc, loc, sent, inflight, calls, seen, result, solo, loaded, lastWriter>>
vars == <<adminVars, page, hides, clicks, install, editor>>

\* No storefront page, no loader run with auto-install, no editor.
NoPage == [script |-> "none", ready |-> "complete", payload |-> <<>>, hideAtc |-> FALSE,
           buttons |-> <<>>, inits |-> 0, redone |-> FALSE, observing |-> FALSE,
           initTimeout |-> FALSE, atc |-> 0,
           now |-> 0, timers |-> {}, lastMutation |-> 0, mutations |-> 0, bursts |-> 0,
           timerInits |-> 0, fires |-> <<>>]
NoInstall == [lpc |-> "none"]
NoEditor == [on |-> FALSE]

NoLoc == [actionType |-> "none", productId |-> NoProduct, hideAtc |-> FALSE,
          externalLinks |-> <<>>, existing |-> NoExisting, toDelete |-> {},
          toSave |-> [k \in Keys |-> NoSave]]
NoSent == [rows |-> <<>>, hide |-> FALSE, via |-> "none"]
NoResult == [success |-> FALSE, kind |-> "none"]
NotLoaded == [status |-> "none", configured |-> {}, data |-> [p \in Products |-> ProductData(NoEntries)]]

Init ==
    /\ store \in [Products -> {NoEntries, LegacyEntries(TrueStr), LegacyEntries(FalseStr),
                              SavedEntries}]
    /\ nextId = FirstFreeId
    /\ pc = [s \in Slots |-> "idle"]
    /\ loc = [s \in Slots |-> NoLoc]
    /\ sent = [s \in Slots |-> NoSent]
    /\ inflight = [s \in Slots |-> {}]
    /\ calls = [s \in Slots |-> <<>>]
    /\ seen = [s \in Slots |-> {}]
    /\ result = [s \in Slots |-> NoResult]
    /\ solo = [s \in Slots |-> TRUE]
    /\ loaded = NotLoaded
    /\ lastWriter = [p \in Products |-> "none"]
    /\ page = NoPage
    /\ hides = <<>>
    /\ clicks = <<>>
    /\ install = NoInstall
    /\ editor = NoEditor

Active(s) == pc[s] \notin {"idle", "done"}

\* admin.graphql(..): a call leaves the handler.
Issue(s, call) ==
    /\ inflight' = [inflight EXCEPT ![s] = @ \cup {call}]
    /\ calls' = [calls EXCEPT ![s] = Append(@, call)]

\* The awaited call is answered and the handler runs on to its next await,
\* issuing the calls of `issued` on the way.
Proceed(s, answered, issued) ==
    /\ answered \in inflight[s]
    /\ inflight' = [inflight EXCEPT ![s] = (@ \ {answered}) \cup {issued[i] : i \in DOMAIN issued}]
    /\ calls' = [calls EXCEPT ![s] = @ \o issued]

Thrown(o) == IF o = "throw" THEN {"throw"} ELSE {}
Seen(s, call, o) ==
    seen' = [seen EXCEPT ![s] = IF o = "ok" THEN @ ELSE @ \cup {call} \cup Thrown(o)]

Return_swallowed(s, success, kind) ==
    /\ pc' = [pc EXCEPT ![s] = "done"]
    /\ result' = [result EXCEPT ![s] = [success |-> success \/ kind = "exception", kind |-> kind]]
Return(s, success, kind) ==
    /\ pc' = [pc EXCEPT ![s] = "done"]
    /\ result' = [result EXCEPT ![s] = [success |-> success, kind |-> kind]]

\* The store changed: what the loader returned before is no longer current.
Written(st) == loaded' = IF st = store THEN loaded ELSE NotLoaded

\* A request arrives: the action reads actionType and productId and takes the
\* save branch (parsing the form, then reading the product's entries), the
\* delete branch or neither.
Begin(s, form, from) ==
    /\ pc[s] = "idle"
    /\ \A i, j \in DOMAIN SlotOrder : i < j /\ SlotOrder[j] = s => pc[SlotOrder[i]] # "idle"
    /\ sent' = [sent EXCEPT ![s] = from]
    /\ solo' = [t \in Slots |->
                  IF t = s
                  THEN \A u \in Slots \ {s} : ~(Active(u) /\ loc[u].productId = form.productId)
                  ELSE IF loc[t].productId = form.productId /\ form.productId # NoProduct
                          /\ form.actionType \in {"save", "delete"}
                       THEN FALSE ELSE solo[t]]
    /\ IF form.actionType = "save" /\ form.productId # NoProduct
       THEN /\ loc' = [loc EXCEPT ![s] = [NoLoc EXCEPT
                         !.actionType = "save", !.productId = form.productId,
                         !.hideAtc = (form.hideAtc = OnStr),
                         !.externalLinks = ParseLinks(form)]]
            /\ Issue(s, "read")
            /\ pc' = [pc EXCEPT ![s] = "saveRead"]
            /\ UNCHANGED result
       ELSE IF form.actionType = "delete" /\ form.productId # NoProduct
       THEN /\ loc' = [loc EXCEPT ![s] = [NoLoc EXCEPT
                         !.actionType = "delete", !.productId = form.productId]]
            /\ Issue(s, "read")
            /\ pc' = [pc EXCEPT ![s] = "deleteRead"]
            /\ UNCHANGED result
       ELSE /\ loc' = [loc EXCEPT ![s] = [NoLoc EXCEPT
                         !.actionType = form.actionType, !.productId = form.productId]]
            /\ Return(s, FALSE, "invalid")
            /\ UNCHANGED <<inflight, calls>>
    /\ UNCHANGED <<store, nextId, seen, loaded, lastWriter>>
    /\ UNCHANGED <<page, hides, clicks, install, editor>>

\* The forms the page posts: the Save button, the native form around the
\* editor rows, the delete confirmation; and what else can reach the route.
BeginSave(s, lists, vias) ==
    \E p \in Products, rows \in lists, hide \in BOOLEAN, via \in vias :
        Begin(s, IF via = "button" THEN ButtonForm(p, rows, hide) ELSE NativeForm(p, rows, hide),
              [rows |-> rows, hide |-> hide, via |-> via])

BeginDelete(s) == \E p \in Products : Begin(s, DeleteForm(p), NoSent)

BeginOther(s) == \E form \in OtherForms : Begin(s, form, NoSent)

\* ------------------------------------------------------------------------
\* The remote side of the two mutations
\* ------------------------------------------------------------------------
\* metafieldsDelete: all the named keys go, or none.
Deleted(entries, keys, o) ==
    IF o = "ok" THEN [k \in Keys |-> IF k \in keys THEN NoEntry ELSE entries[k]]
    ELSE entries

\* productUpdate.  An entry sent with an id updates the record of that id, so
\* the mutation cannot succeed when that record is gone; an entry sent without
\* one is written under its key.
SentKeys(toSave) == {k \in Keys : toSave[k].send}
IdsLive(entries, toSave) ==
    \A k \in SentKeys(toSave) : toSave[k].id # 0 => entries[k].id = toSave[k].id
Overwrites(entries, toSave) ==
    \E k \in SentKeys(toSave) : toSave[k].id = 0 /\ entries[k].id # 0
NewKeys(entries, toSave) == {k \in SentKeys(toSave) : entries[k].id = 0}
FreshId(entries, toSave, k) ==
    IF k = "hide_atc" /\ "external_links" \in NewKeys(entries, toSave)
    THEN nextId + 1 ELSE nextId
Upserted(entries, toSave, o) ==
    IF o # "ok" THEN entries
    ELSE [k \in Keys |->
            IF ~toSave[k].send THEN entries[k]
            ELSE IF entries[k].id # 0 THEN Entry(entries[k].id, toSave[k].value)
            ELSE Entry(FreshId(entries, toSave, k), toSave[k].value)]

\* ------------------------------------------------------------------------
\* The save branch of the action
\* ------------------------------------------------------------------------
\* What the save issues once it has read the entries: the delete mutation,
\* awaited, when there is something to delete, else the productUpdate.
AfterRead_notAwaited(toDelete) == IF toDelete # {} THEN <<"delete", "update">> ELSE <<"update">>
AfterRead(toDelete) == IF toDelete # {} THEN <<"delete">> ELSE <<"update">>

\* The read is answered: existingMetafields, metafieldsToDelete and
\* metafieldsToSave are computed (a response without data reads as no
\* entries) and the next call is issued.
SaveReadAnswered(s, o) ==
    /\ pc[s] = "saveRead"
    /\ Seen(s, "read", o)
    /\ IF o = "throw"
       THEN /\ Proceed(s, "read", <<>>)
            /\ Return(s, FALSE, "exception")
            /\ UNCHANGED loc
       ELSE LET existing == IF o = "ok" THEN IdsOf(store[loc[s].productId]) ELSE NoExisting
                toDelete == MetafieldsToDelete(existing, loc[s].hideAtc)
                toSave == MetafieldsToSave(existing, loc[s].externalLinks, loc[s].hideAtc)
            IN /\ loc' = [loc EXCEPT ![s].existing = existing,
                                     ![s].toDelete = toDelete,
                                     ![s].toSave = toSave]
               /\ Proceed(s, "read", AfterRead(toDelete))
               /\ pc' = [pc EXCEPT ![s] = IF toDelete # {} THEN "saveDelete" ELSE "saveUpdate"]
               /\ UNCHANGED result
    /\ UNCHANGED <<store, nextId, sent, solo, loaded, lastWriter>>
    /\ UNCHANGED <<page, hides, clicks, install, editor>>

\* The delete mutation is answered.  Only an exception stops the save: the
\* response is awaited and then not looked at.  The productUpdate follows.
SaveDeleteAnswered(s, o) ==
    LET p == loc[s].productId
        st == [store EXCEPT ![p] = Deleted(@, loc[s].toDelete, o)]
    IN /\ pc[s] = "saveDelete"
       /\ store' = st
       /\ Written(st)
       /\ Seen(s, "delete", o)
       /\ IF o = "throw"
          THEN Proceed(s, "delete", <<>>) /\ Return(s, FALSE, "exception")
          ELSE /\ Proceed(s, "delete", <<"update">>)
               /\ pc' = [pc EXCEPT ![s] = "saveUpdate"]
               /\ UNCHANGED result
       /\ UNCHANGED <<nextId, loc, sent, solo, lastWriter>>
       /\ UNCHANGED <<page, hides, clicks, install, editor>>

\* The productUpdate is answered: errors and userErrors fail the save.
SaveUpdateAnswered(s, o) ==
    LET p == loc[s].productId
        st == [store EXCEPT ![p] = Upserted(@, loc[s].toSave, o)]
    IN /\ pc[s] = "saveUpdate"
       /\ o = "ok" => IdsLive(store[p], loc[s].toSave)
       /\ Proceed(s, "update", <<>>)
       /\ store' = st
       /\ Written(st)
       /\ nextId' = IF o = "ok" THEN nextId + Cardinality(NewKeys(store[p], loc[s].toSave))
                    ELSE nextId
       /\ seen' = [seen EXCEPT ![s] =
                    IF o # "ok" THEN @ \cup {"update"} \cup Thrown(o)
                    ELSE IF Overwrites(store[p], loc[s].toSave) THEN @ \cup {"overwrite"}
                    ELSE @]
       /\ CASE o = "throw" -> Return(s, FALSE, "exception")
            [] o \in {"errors", "userErrors"} -> Return(s, FALSE, "saveFailed")
            [] OTHER -> Return(s, TRUE, "saved")
       /\ lastWriter' = IF o = "ok" THEN [lastWriter EXCEPT ![p] = s] ELSE lastWriter
       /\ UNCHANGED <<loc, sent, solo>>
       /\ UNCHANGED <<page, hides, clicks, install, editor>>

\* ------------------------------------------------------------------------
\* The delete branch of the action
\* ------------------------------------------------------------------------
\* The read is answered: GraphQL errors fail the request, no entries end it
\* with success, else every key read is named in one metafieldsDelete.
\* existingMetafields of the delete branch, as the keys it names in the mutation.
DeleteKeys_keepLinks(existing) == {k \in Keys : existing[k] # 0 /\ k # "external_links"}
DeleteKeys(existing) == {k \in Keys : existing[k] # 0}

DeleteReadAnswered(s, o) ==
    LET existing == IF o = "ok" THEN IdsOf(store[loc[s].productId]) ELSE NoExisting
        keys == DeleteKeys(existing)
    IN /\ pc[s] = "deleteRead"
       /\ Seen(s, "read", o)
       /\ CASE o = "throw" ->
                 Proceed(s, "read", <<>>) /\ Return(s, FALSE, "exception") /\ UNCHANGED loc
            [] o = "errors" ->
                 Proceed(s, "read", <<>>) /\ Return(s, FALSE, "fetchFailed") /\ UNCHANGED loc
            [] o = "ok" /\ keys = {} ->
                 /\ loc' = [loc EXCEPT ![s].existing = existing]
                 /\ Proceed(s, "read", <<>>)
                 /\ Return(s, TRUE, "alreadyRemoved")
            [] OTHER ->
                 /\ loc' = [loc EXCEPT ![s].existing = existing, ![s].toDelete = keys]
                 /\ Proceed(s, "read", <<"delete">>)
                 /\ pc' = [pc EXCEPT ![s] = "deleteDelete"]
                 /\ UNCHANGED result
       /\ UNCHANGED <<store, nextId, sent, solo, loaded, lastWriter>>
       /\ UNCHANGED <<page, hides, clicks, install, editor>>

\* The delete mutation is answered: errors and userErrors fail the request.
DeleteDeleteAnswered(s, o) ==
    LET p == loc[s].productId
        st == [store EXCEPT ![p] = Deleted(@, loc[s].toDelete, o)]
    IN /\ pc[s] = "deleteDelete"
       /\ Proceed(s, "delete", <<>>)
       /\ store' = st
       /\ Written(st)
       /\ Seen(s, "delete", o)
       /\ CASE o = "throw" -> Return(s, FALSE, "exception")
            [] o \in {"errors", "userErrors"} -> Return(s, FALSE, "deleteFailed")
            [] OTHER -> Return(s, TRUE, "removed")
       /\ UNCHANGED <<nextId, loc, sent, solo, lastWriter>>
       /\ UNCHANGED <<page, hides, clicks, install, editor>>

\* ------------------------------------------------------------------------
\* The loader: the products query and its mapping
\* ------------------------------------------------------------------------
\* GraphQL errors and exceptions leave configuredProducts empty.
Loaded(o) ==
    IF o = "ok"
    THEN [status |-> "ok", configured |-> ConfiguredProducts(store),
          data |-> [p \in Products |-> ProductData(store[p])]]
    ELSE [NotLoaded EXCEPT !.status = "failed"]
LoaderProducts(o) ==
    /\ loaded' = Loaded(o)
    /\ UNCHANGED <<store, nextId, pc, loc, sent, inflight, calls, seen, result, solo, lastWriter>>
    /\ UNCHANGED <<page, hides, clicks, install, editor>>

\* ------------------------------------------------------------------------
\* Specifications
\* ------------------------------------------------------------------------
Answers(s) ==
    \/ \E o \in ReadOutcomes : SaveReadAnswered(s, o)
    \/ \E o \in Outcomes : SaveDeleteAnswered(s, o)
    \/ \E o \in Outcomes : SaveUpdateAnswered(s, o)
    \/ \E o \in ReadOutcomes : DeleteReadAnswered(s, o)
    \/ \E o \in Outcomes : DeleteDeleteAnswered(s, o)

\* Two browser tabs: their Save buttons and delete confirmations are handled
\* at the same time, the remote calls interleaving in any order.
Next ==
    \E s \in Slots :
        \/ BeginSave(s, CompleteLists, {"button"})
        \/ BeginDelete(s)
        \/ BeginOther(s)
        \/ Answers(s)

Spec == Init /\ [][Next]_vars

\* One request, posted in any of the ways the page can post it, and loader
\* runs before, during and after it.
NextSeq ==
    \/ BeginSave(SlotOrder[1], EditorLists, {"button", "native"})
    \/ BeginDelete(SlotOrder[1])
    \/ BeginOther(SlotOrder[1])
    \/ Answers(SlotOrder[1])
    \/ \E o \in ReadOutcomes : LoaderProducts(o)

SpecSeq == Init /\ [][NextSeq]_vars

\* ------------------------------------------------------------------------
\* The save branch of the action in src/app/routes/app._index.tsx
\* ------------------------------------------------------------------------
\* The form around the editor rows of that route: next to each checkbox a
\* hidden field with the state it was rendered in; an unchecked checkbox is
\* absent from the form data (null, here the empty string).
IndexRow(l) == [url |-> l.url, text |-> l.text,
                enabled |-> IF l.enabled THEN OnStr ELSE EmptyStr,
                enabledHidden |-> IF l.enabled THEN TrueStr ELSE FalseStr]
IndexForm(p, rows, hide) ==
    [actionType |-> "save", productId |-> p, linkCount |-> Len(rows),
     rows |-> [i \in 1..Len(rows) |-> IndexRow(rows[i])],
     hideAtc |-> IF hide THEN OnStr ELSE EmptyStr,
     hideAtcHidden |-> IF hide THEN TrueStr ELSE FalseStr]

\* enabledData === "on" || (enabledData === null && enabledHidden === "true")
Checked(data, hidden) == data = OnStr \/ (data = EmptyStr /\ hidden = TrueStr)

\* The loop over link_i_* of that save branch.
IndexParseLinks(form) ==
    [i \in 1..form.linkCount |->
        ExternalLink(form.rows[i].url, form.rows[i].text,
                     Checked(form.rows[i].enabled, form.rows[i].enabledHidden))]

\* metafieldsToCreate: no ids; external_links only for a list that is not empty.
MetafieldsToCreate(links, hideAtc) ==
    [k \in Keys |->
        CASE k = "external_links" /\ Len(links) > 0 -> SaveEntry(0, JSONstringify(links))
          [] k = "hide_atc" /\ hideAtc -> SaveEntry(0, TrueStr)
          [] OTHER -> NoSave]

\* A save request arrives: the form is parsed and the product's keys are read.
IndexBeginSave(s) ==
    \E p \in Products, rows \in EditorLists, hide \in BOOLEAN :
        LET form == IndexForm(p, rows, hide)
        IN /\ pc[s] = "idle"
           /\ sent' = [sent EXCEPT ![s] = [rows |-> rows, hide |-> hide, via |-> "native"]]
           /\ loc' = [loc EXCEPT ![s] = [NoLoc EXCEPT
                        !.actionType = "save", !.productId = p,
                        !.hideAtc = Checked(form.hideAtc, form.hideAtcHidden),
                        !.externalLinks = IndexParseLinks(form)]]
           /\ Issue(s, "read")
           /\ pc' = [pc EXCEPT ![s] = "indexRead"]
           /\ UNCHANGED <<store, nextId, seen, result, solo, loaded, lastWriter>>
           /\ UNCHANGED <<page, hides, clicks, install, editor>>

\* What follows the deletion, or the read when there was nothing to delete:
\* productUpdate when metafieldsToCreate is not empty, else the success return.
IndexCreate(s, answered, toSave) ==
    IF SentKeys(toSave) # {}
    THEN /\ Proceed(s, answered, <<"update">>)
         /\ pc' = [pc EXCEPT ![s] = "indexUpdate"]
         /\ UNCHANGED result
    ELSE /\ Proceed(s, answered, <<>>)
         /\ Return(s, TRUE, "saved")

\* The read is answered: every key read is to be deleted.
IndexReadAnswered(s, o) ==
    /\ pc[s] = "indexRead"
    /\ Seen(s, "read", o)
    /\ IF o = "throw"
       THEN /\ Proceed(s, "read", <<>>)
            /\ Return(s, FALSE, "exception")
            /\ UNCHANGED loc
       ELSE LET existing == IF o = "ok" THEN IdsOf(store[loc[s].productId]) ELSE NoExisting
                keysToDelete == DeleteKeys(existing)
                toSave == MetafieldsToCreate(loc[s].externalLinks, loc[s].hideAtc)
            IN /\ loc' = [loc EXCEPT ![s].existing = existing,
                                     ![s].toDelete = keysToDelete,
                                     ![s].toSave = toSave]
               /\ IF keysToDelete # {}
                  THEN /\ Proceed(s, "read", <<"delete">>)
                       /\ pc' = [pc EXCEPT ![s] = "indexDelete"]
                       /\ UNCHANGED result
                  ELSE IndexCreate(s, "read", toSave)
    /\ UNCHANGED <<store, nextId, sent, solo, loaded, lastWriter>>
    /\ UNCHANGED <<page, hides, clicks, install, editor>>

\* The delete mutation is answered; its response is not looked at.
IndexDeleteAnswered(s, o) ==
    LET p == loc[s].productId
        st == [store EXCEPT ![p] = Deleted(@, loc[s].toDelete, o)]
    IN /\ pc[s] = "indexDelete"
       /\ store' = st
       /\ Written(st)
       /\ Seen(s, "delete", o)
       /\ IF o = "throw"
          THEN Proceed(s, "delete", <<>>) /\ Return(s, FALSE, "exception")
          ELSE IndexCreate(s, "delete", loc[s].toSave)
       /\ UNCHANGED <<nextId, loc, sent, solo, lastWriter>>
       /\ UNCHANGED <<page, hides, clicks, install, editor>>

\* productUpdate is answered: errors and userErrors fail the save.
IndexUpdateAnswered(s, o) ==
    LET p == loc[s].productId
        st == [store EXCEPT ![p] = Upserted(@, loc[s].toSave, o)]
    IN /\ pc[s] = "indexUpdate"
       /\ Proceed(s, "update", <<>>)
       /\ store' = st
       /\ Written(st)
       /\ nextId' = IF o = "ok" THEN nextId + Cardinality(NewKeys(store[p], loc[s].toSave))
                    ELSE nextId
       /\ seen' = [seen EXCEPT ![s] =
                    IF o # "ok" THEN @ \cup {"update"} \cup Thrown(o)
                    ELSE IF Overwrites(store[p], loc[s].toSave) THEN @ \cup {"overwrite"}
                    ELSE @]
       /\ CASE o = "throw" -> Return(s, FALSE, "exception")
            [] o \in {"errors", "userErrors"} -> Return(s, FALSE, "saveFailed")
            [] OTHER -> Return(s, TRUE, "saved")
       /\ lastWriter' = IF o = "ok" THEN [lastWriter EXCEPT ![p] = s] ELSE lastWriter
       /\ UNCHANGED <<loc, sent, solo>>
       /\ UNCHANGED <<page, hides, clicks, install, editor>>

\* One save request handled by that route, and loader runs.
NextIndex ==
    \/ IndexBeginSave(SlotOrder[1])
    \/ \E o \in ReadOutcomes : IndexReadAnswered(SlotOrder[1], o)
    \/ \E o \in Outcomes : IndexDeleteAnswered(SlotOrder[1], o)
    \/ \E o \in Outcomes : IndexUpdateAnswered(SlotOrder[1], o)
    \/ \E o \in ReadOutcomes : LoaderProducts(o)

SpecIndex == Init /\ [][NextIndex]_vars

\* ------------------------------------------------------------------------
\* The storefront page: one container, the script, its timers
\* ------------------------------------------------------------------------
\* A product page as Liquid wrote it: the container's data-external-links and
\* data-hide-atc, document.readyState when the script runs and the visible
\* add-to-cart elements.
PageOf(payload, hide, ready, atc) ==
    [NoPage EXCEPT !.script = "notRun", !.payload = payload, !.hideAtc = hide,
                   !.ready = ready, !.atc = atc]

PageInit(payloads, hideFlags, visible) ==
    /\ store = [p \in Products |-> NoEntries]
    /\ nextId = FirstFreeId
    /\ pc = [s \in Slots |-> "idle"]
    /\ loc = [s \in Slots |-> NoLoc]
    /\ sent = [s \in Slots |-> NoSent]
    /\ inflight = [s \in Slots |-> {}]
    /\ calls = [s \in Slots |-> <<>>]
    /\ seen = [s \in Slots |-> {}]
    /\ result = [s \in Slots |-> NoResult]
    /\ solo = [s \in Slots |-> TRUE]
    /\ loaded = NotLoaded
    /\ lastWriter = [p \in Products |-> "none"]
    /\ \E i \in DOMAIN payloads, hide \in hideFlags, ready \in {"loading", "complete"},
          atc \in visible :
          page = PageOf(payloads[i], hide, ready, atc)
    /\ hides = <<>>
    /\ clicks = <<>>
    /\ install = NoInstall
    /\ editor = NoEditor

\* hideAttempt schedules itself again only when nothing was hidden and
\* attempts are left.
ShouldRetry_whileHiding(hiddenCount, attempts) == attempts < maxAttempts
ShouldRetry(hiddenCount, attempts) == hiddenCount = 0 /\ attempts < maxAttempts

\* One pass of hideAttempt of a call that made `attempts` passes before: every
\* visible element a selector matches is hidden and counted, then either the
\* next pass is scheduled or clearifyATCHideComplete is dispatched.
HidePass(h, visible) ==
    LET attempts == h.attempts + 1
    IN IF ShouldRetry(visible, attempts)
       THEN [h EXCEPT !.attempts = attempts, !.hiddenCount = visible, !.timer = TRUE]
       ELSE [h EXCEPT !.attempts = attempts, !.hiddenCount = visible, !.timer = FALSE,
                      !.events = Append(@, [hiddenCount |-> visible, attempts |-> attempts])]
NoHide == [attempts |-> 0, hiddenCount |-> 0, timer |-> FALSE, events |-> <<>>]

\* init tests the payload before it calls renderExternalButtons.
HasData(payload) == ~BlankText(payload) /\ ~EmptyArrayPayload(payload)

\* CustomButtonScript.init(): for the container, initHideATC with its first
\* pass when data-hide-atc is "true", then renderExternalButtons when there
\* is data.  Removing or adding children of the container is a childList
\* mutation, which the observer, once it observes, answers by setting its
\* timeout.
InitDone(observed, render, buttons) ==
    [page EXCEPT
        !.script = "ran",
        !.inits = @ + 1,
        !.buttons = buttons,
        !.atc = IF page.hideAtc THEN 0 ELSE @,
        !.redone = @ \/ (page.inits > 0 /\ (render \/ page.hideAtc)),
        !.observing = TRUE,
        !.initTimeout = observed /\ render /\ (page.buttons # <<>> \/ buttons # <<>>)]
RunInit(observed) ==
    LET render == HasData(page.payload)
    IN /\ page' = InitDone(observed, render,
                          IF render THEN renderExternalButtons(page.payload) ELSE page.buttons)
       /\ hides' = IF page.hideAtc THEN Append(hides, HidePass(NoHide, page.atc)) ELSE hides


\* The script is evaluated: init at once when the document is parsed, and
\* only then observer.observe; else init waits for DOMContentLoaded.
ScriptRuns ==
    /\ page.script = "notRun"
    /\ IF page.ready = "complete"
       THEN RunInit(FALSE)
       ELSE /\ page' = [page EXCEPT !.script = "waiting", !.observing = TRUE]
            /\ UNCHANGED hides
    /\ UNCHANGED <<adminVars, clicks, install, editor>>

DOMContentLoaded ==
    /\ page.script = "waiting"
    /\ RunInit(TRUE)
    /\ UNCHANGED <<adminVars, clicks, install, editor>>

\* The observer's timeout fires: init runs again.
ObserverTimeout ==
    /\ page.initTimeout
    /\ page.inits < MaxInits
    /\ RunInit(TRUE)
    /\ UNCHANGED <<adminVars, clicks, install, editor>>

\* Other scripts of the page add or remove content.
ContentLoaded ==
    /\ page.observing
    /\ ~page.initTimeout
    /\ page' = [page EXCEPT !.initTimeout = TRUE]
    /\ UNCHANGED <<adminVars, hides, clicks, install, editor>>

\* The theme renders an add-to-cart element late.
AtcRendered ==
    /\ page.script # "none"
    /\ page.atc < MaxAtc
    /\ page' = [page EXCEPT !.atc = @ + 1, !.initTimeout = @ \/ page.observing]
    /\ UNCHANGED <<adminVars, hides, clicks, install, editor>>

\* The retry timeout of the i-th initHideATC call fires.
HideTimeout(i) ==
    /\ i \in DOMAIN hides
    /\ hides[i].timer
    /\ hides' = [hides EXCEPT ![i] = HidePass(@, page.atc)]
    /\ page' = [page EXCEPT !.atc = 0]
    /\ UNCHANGED <<adminVars, clicks, install, editor>>

\* ------------------------------------------------------------------------
\* Clicks
\* ------------------------------------------------------------------------
\* getAttribute('data-external-url'): null when the button has none.
NoAttr == [has |-> FALSE, s |-> <<>>]
Attr(chars) == [has |-> TRUE, s |-> chars]

\* What a call of showUserMessage can do: show the Shopify toast, append its
\* own toast to the body, throw, or throw on the first call only.
ToastOutcomes == {"shopify", "own", "throws", "throwsOnce"}
\* trackClick catches whatever its analytics calls throw.
TrackOutcomes == {"ok", "throws"}

\* handleExternalClick(buttonElement), up to its return: whether window.open
\* was scheduled and whether an exception left the handler.  The catch block
\* calls showUserMessage again.
handleExternalClick(url, track, toast) ==
    LET configured == url.has /\ url.s # <<>>
        valid == configured /\ isValidUrl(url.s)
        messageThrows == toast \in {"throws", "throwsOnce"}
    IN [url |-> url, track |-> track, toast |-> toast,
        pending |-> valid /\ ~messageThrows,
        opened |-> FALSE,
        escaped |-> messageThrows /\ toast = "throws"]

\* Buttons the theme's own markup can carry besides the rendered ones.
LegacyButtons == {NoAttr, Attr(<<>>), Attr(<<"x">>), Attr(<<" ", "H", "T", "T", "P", "S", ":", "/", "/", "x">>)}

Click ==
    /\ page.script \in {"waiting", "ran"}
    /\ Len(clicks) < MaxClicks
    /\ \E url \in LegacyButtons \cup {Attr(page.buttons[i].url) : i \in DOMAIN page.buttons},
          track \in TrackOutcomes, toast \in ToastOutcomes :
          /\ clicks' = Append(clicks, handleExternalClick(url, track, toast))
          /\ page' = [page EXCEPT !.initTimeout = @ \/ (toast = "own" /\ page.observing)]
    /\ UNCHANGED <<adminVars, hides, install, editor>>

\* The 200 ms timeout of a click fires: window.open(url, '_blank', ..).
OpenTimeout(i) ==
    /\ i \in DOMAIN clicks
    /\ clicks[i].pending
    /\ clicks' = [clicks EXCEPT ![i].pending = FALSE, ![i].opened = TRUE]
    /\ UNCHANGED <<adminVars, page, hides, install, editor>>

\* ------------------------------------------------------------------------
\* Payloads and the storefront specifications
\* ------------------------------------------------------------------------
RECURSIVE MemberToks(_)
MemberToks(ms) ==
    IF ms = <<>> THEN <<>>
    ELSE <<Tok(ms[1][1], <<ms[1][2]>>), ms[1][3]>>
         \o (IF Len(ms) > 1 THEN <<Tok(",", <<>>)>> ELSE <<>>)
         \o MemberToks(Tail(ms))
ObjToks(ms) == <<Tok("{", <<>>)>> \o MemberToks(ms) \o <<Tok("}", <<>>)>>
RECURSIVE ItemToks(_)
ItemToks(items) ==
    IF items = <<>> THEN <<>>
    ELSE items[1] \o (IF Len(items) > 1 THEN <<Tok(",", <<>>)>> ELSE <<>>) \o ItemToks(Tail(items))
ArrToks(items) == <<Tok("[", <<>>)>> \o ItemToks(items) \o <<Tok("]", <<>>)>>

HttpUrl == <<"h", "t", "t", "p", ":", "/", "/", "x">>
ScriptUrl == <<"j", "a", "v", "a", "s", "c", "r", "i", "p", "t", ":", "x">>
StrTok(chars) == Tok("str", Escape(chars))
TrueTok == Tok("true", <<>>)

\* The data-external-links texts a page can carry: none, blank, "[]", what
\* the save wrote, arrays whose enabled is not a boolean or is missing, blank
\* and missing urls, a null element, the same array in Ruby hash syntax with
\* &quot; quotes, text that is no JSON, and JSON that is no array.
PagePayloads ==
    << <<>>,
       <<Tok("ws", <<>>)>>,
       ArrToks(<<>>),
       JSONstringify(<<LinkA>>),
       JSONstringify(<<LinkC, ExternalLink(HttpUrl, <<"H">>, TRUE)>>),
       ArrToks(<< ObjToks(<< <<"key", "url", StrTok(<<"a">>)>>,
                             <<"key", "enabled", StrTok(TrueStr)>> >>) >>),
       ArrToks(<< ObjToks(<< <<"key", "url", StrTok(ScriptUrl)>>,
                             <<"key", "enabled", Tok("num", <<"1">>)>> >>) >>),
       ArrToks(<< ObjToks(<< <<"key", "url", StrTok(<<"a">>)>> >>),
                  ObjToks(<< <<"key", "url", StrTok(<<Space>>)>>, <<"key", "enabled", TrueTok>> >>),
                  ObjToks(<< <<"key", "enabled", TrueTok>> >>) >>),
       ArrToks(<< <<Tok("null", <<>>)>> >>),
       ArrToks(<< ObjToks(<< <<"rkey", "url", Tok("estr", HttpUrl)>>,
                             <<"bkey", "enabled", TrueTok>> >>) >>),
       <<Tok("junk", <<>>)>>,
       <<Tok("[", <<>>), Tok("junk", <<>>)>>,
       ObjToks(<< <<"key", "url", StrTok(<<"a">>)>>, <<"key", "enabled", TrueTok>> >>),
       <<Tok("null", <<>>)>>,
       <<Tok("num", <<"5">>)>> >>

\* The pages of the hide procedure: a container without links and one with.
HidePayloads == << <<>>, JSONstringify(<<LinkA>>) >>

\* Pages whose container does not ask to hide the add-to-cart button: their
\* script, the observer and the clicks.
InitPage == PageInit(PagePayloads, {FALSE}, {0})

NextPage ==
    \/ ScriptRuns
    \/ DOMContentLoaded
    \/ ObserverTimeout
    \/ ContentLoaded
    \/ Click
    \/ \E i \in 1..MaxClicks : OpenTimeout(i)

SpecPage == InitPage /\ [][NextPage]_vars

\* Pages with and without data-hide-atc, on a theme that renders add-to-cart
\* elements at any time.
InitHide == PageInit(HidePayloads, BOOLEAN, 0..MaxAtc)

NextHide ==
    \/ ScriptRuns
    \/ DOMContentLoaded
    \/ ObserverTimeout
    \/ ContentLoaded
    \/ AtcRendered
    \/ \E i \in 1..MaxInits : HideTimeout(i)

\* A timeout that was set fires.
SpecHide ==
    InitHide /\ [][NextHide]_vars /\ \A i \in 1..MaxInits : WF_vars(HideTimeout(i))

\* ------------------------------------------------------------------------
\* The observer's debounce, with the clock
\* ------------------------------------------------------------------------
\* The MutationObserver callback: clearTimeout(initTimeout), then
\* initTimeout = setTimeout(init, 500).  timers holds the due times of the
\* timeouts that are set; p.timers \ {..} is what clearTimeout leaves.
ObserverCallback_noClear(p) ==
    [p EXCEPT !.timers = @ \cup {p.now + initDelay}, !.initTimeout = TRUE,
              !.bursts = IF p.timers = {} THEN @ + 1 ELSE @,
              !.lastMutation = p.now]
ObserverCallback(p) ==
    [p EXCEPT !.timers = {p.now + initDelay}, !.initTimeout = TRUE,
              !.bursts = IF p.timers = {} THEN @ + 1 ELSE @,
              !.lastMutation = p.now]

\* init has run with the timeouts `timers` set: the observer is called back
\* when init changed the children of the container.
AfterInit(p, timers) ==
    IF p.initTimeout
    THEN ObserverCallback([p EXCEPT !.timers = timers])
    ELSE [p EXCEPT !.timers = timers, !.initTimeout = timers # {}]
TimedInit(render, timers) ==
    AfterInit(InitDone(TRUE, render,
                       IF render THEN renderExternalButtons(page.payload) ELSE page.buttons),
              timers)

\* A timeout that is due fires before anything else happens at that instant.
NoneDue == \A due \in page.timers : due > page.now

TimedContentLoaded ==
    /\ page.script = "waiting"
    /\ NoneDue
    /\ page' = TimedInit(HasData(page.payload), page.timers)
    /\ UNCHANGED <<adminVars, hides, clicks, install, editor>>

\* The observer's timeout fires at its due time: init runs.
TimerFires ==
    /\ page.inits < MaxInits
    /\ \E due \in page.timers :
          /\ due = page.now
          /\ page' = [TimedInit(HasData(page.payload), page.timers \ {due}) EXCEPT
                        !.timerInits = @ + 1,
                        !.fires = Append(@, [at |-> page.now, lastMutation |-> page.lastMutation])]
    /\ UNCHANGED <<adminVars, hides, clicks, install, editor>>

\* Another script adds or removes an element somewhere under document.body.
DomMutation ==
    /\ page.observing
    /\ page.mutations < MaxMutations
    /\ NoneDue
    /\ page' = ObserverCallback([page EXCEPT !.mutations = @ + 1])
    /\ UNCHANGED <<adminVars, hides, clicks, install, editor>>

\* Time passes, up to the next due time.
NextInstant(later) ==
    IF \E due \in page.timers : due <= later
    THEN CHOOSE due \in page.timers : \A other \in page.timers : due <= other
    ELSE later
TimePasses ==
    /\ page.script # "notRun"
    /\ page.now < MaxTime
    /\ NoneDue
    /\ page' = [page EXCEPT !.now = NextInstant(page.now + TimeStep)]
    /\ UNCHANGED <<adminVars, hides, clicks, install, editor>>

NextDebounce ==
    \/ ScriptRuns
    \/ TimedContentLoaded
    \/ TimerFires
    \/ DomMutation
    \/ TimePasses

\* The page with its clock and other scripts changing the DOM at any time.
SpecDebounce == InitPage /\ [][NextDebounce]_vars

\* The page left to the script alone runs without end, so its clock is read
\* from now on (due times become delays) and its counters stop at MaxInits;
\* the record of the fires is not kept.
AtMost(n) == IF n > MaxInits THEN MaxInits ELSE n
FromNow(p) ==
    [p EXCEPT !.now = 0, !.timers = { due - p.now : due \in @ }, !.lastMutation = 0,
              !.inits = AtMost(@), !.timerInits = AtMost(@), !.bursts = AtMost(@),
              !.fires = <<>>]

\* The observer's timeout fires: init runs, however often it has run.
QuietTimerFires ==
    /\ \E due \in page.timers :
          /\ due = page.now
          /\ page' = FromNow(TimedInit(HasData(page.payload), page.timers \ {due}))
    /\ UNCHANGED <<adminVars, hides, clicks, install, editor>>

\* Time passes, up to the next due time, without end.
QuietTimePasses ==
    /\ page.script # "notRun"
    /\ NoneDue
    /\ page' = FromNow([page EXCEPT !.now = NextInstant(page.now + TimeStep)])
    /\ UNCHANGED <<adminVars, hides, clicks, install, editor>>

\* Nothing else changes the DOM; time passes and what is due happens.
NextQuiet ==
    \/ ScriptRuns
    \/ TimedContentLoaded
    \/ QuietTimerFires
    \/ QuietTimePasses

\* The page's event loop runs the script, DOMContentLoaded and every timeout
\* that is due: weak fairness of ScriptRuns, TimedContentLoaded and
\* QuietTimerFires, each of which ends the condition that enables it,
\* written with those conditions.
TimerDue == \E due \in page.timers : due = page.now
InitDue == page.script \in {"notRun", "waiting"} /\ NoneDue
SpecQuiet ==
    /\ InitPage /\ [][NextQuiet]_vars
    /\ []<>(~InitDue) /\ []<>(~TimerDue)
    /\ WF_vars(QuietTimePasses)

\* ------------------------------------------------------------------------
\* The loader with the auto-install of the app block (part_003)
\* ------------------------------------------------------------------------
\* A theme file: whether its name holds 'product' and '.json', whether its
\* body parses, whether the template has a product-form or main-product
\* section, and how many blocks of the app it holds.
Template(json, section, ours) == [json |-> json, section |-> section, ours |-> ours]
File(product, body) == [product |-> product, body |-> body]
Theme(main, files) == [main |-> main, files |-> files]

Themes ==
    { Theme(FALSE, <<>>),
      Theme(TRUE, <<File(FALSE, Template(TRUE, TRUE, 0))>>),
      Theme(TRUE, <<File(TRUE, Template(FALSE, FALSE, 0))>>),
      Theme(TRUE, <<File(TRUE, Template(TRUE, FALSE, 0))>>),
      Theme(TRUE, <<File(FALSE, Template(TRUE, FALSE, 0)), File(TRUE, Template(TRUE, TRUE, 0))>>),
      Theme(TRUE, <<File(TRUE, Template(TRUE, TRUE, 1))>>) }

\* productTemplates[0], as its position in the files; 0 when there is none.
RECURSIVE FirstProductTemplate(_, _)
FirstProductTemplate(files, i) ==
    IF i > Len(files) THEN 0
    ELSE IF files[i].product THEN i
    ELSE FirstProductTemplate(files, i + 1)

\* templateContent after the block was put into the section's blocks.
WithOurBlock(templateContent) == [templateContent EXCEPT !.ours = @ + 1]

\* themeFilesUpsert with the template that was read and the block was added
\* to: the body of the file is replaced.
Upsert_adds(theme, i, read, o) ==
    IF o = "ok" THEN [theme EXCEPT !.files[i].body.ours = @ + 1] ELSE theme
Upsert(theme, i, read, o) ==
    IF o = "ok" THEN [theme EXCEPT !.files[i].body = WithOurBlock(read)] ELSE theme

\* One loader run: what it found, what it issued and what it returned.
NoRun == [sentinel |-> FALSE, configured |-> 0, invoked |-> FALSE, reads |-> 0,
          writes |-> 0, upsert |-> "none", mark |-> "none", before |-> Theme(FALSE, <<>>),
          read |-> Template(FALSE, FALSE, 0),
          status |-> "not_attempted", success |-> FALSE]

InstallOf(sentinel, theme) ==
    [lpc |-> "idle", sentinel |-> sentinel, theme |-> theme, loads |-> 0,
     target |-> 0, pending |-> "none", run |-> NoRun,
     attempts |-> 0, checkFailed |-> FALSE]

InitInstall ==
    /\ store \in [Products -> {NoEntries, SavedEntries}]
    /\ nextId = FirstFreeId
    /\ pc = [s \in Slots |-> "idle"]
    /\ loc = [s \in Slots |-> NoLoc]
    /\ sent = [s \in Slots |-> NoSent]
    /\ inflight = [s \in Slots |-> {}]
    /\ calls = [s \in Slots |-> <<>>]
    /\ seen = [s \in Slots |-> {}]
    /\ result = [s \in Slots |-> NoResult]
    /\ solo = [s \in Slots |-> TRUE]
    /\ loaded = NotLoaded
    /\ lastWriter = [p \in Products |-> "none"]
    /\ page = NoPage
    /\ hides = <<>>
    /\ clicks = <<>>
    /\ \E sentinel \in BOOLEAN, theme \in Themes : install = InstallOf(sentinel, theme)
    /\ editor = NoEditor

\* The loader returns blockInstallationStatus and blockAutoInstalled.
LoaderReturns(in, status, success) ==
    [in EXCEPT !.lpc = "idle", !.run.status = status, !.run.success = success]

\* The loader starts: the products query is answered and mapped, then
\* checkAutoInstallStatus issues its query.
LoaderStarts(o) ==
    /\ install.lpc = "idle"
    /\ install.loads < MaxLoads
    /\ loaded' = Loaded(o)
    /\ install' = [install EXCEPT
                     !.lpc = "check", !.loads = @ + 1, !.target = 0, !.pending = "none",
                     !.run = [NoRun EXCEPT !.configured = Cardinality(Loaded(o).configured),
                                             !.before = install.theme]]
    /\ UNCHANGED <<store, nextId, pc, loc, sent, inflight, calls, seen, result, solo, lastWriter>>
    /\ UNCHANGED <<page, hides, clicks, editor>>

\* checkAutoInstallStatus: nodes.length > 0 of the answer, false when the
\* answer has no data or the call throws.
checkAutoInstallStatus(sentinel, o) == o = "ok" /\ sentinel

\* The sentinel query is answered: the loader invokes autoInstallAppBlock,
\* which issues the themes query, or skips it.
SentinelAnswered(o) ==
    LET autoInstallAttempted == checkAutoInstallStatus(install.sentinel, o)
        in == [install EXCEPT !.run.sentinel = install.sentinel,
                              !.checkFailed = @ \/ o # "ok"]
    IN /\ install.lpc = "check"
       /\ install' =
            IF ~autoInstallAttempted /\ install.run.configured > 0
            THEN [in EXCEPT !.lpc = "themes", !.run.invoked = TRUE, !.run.reads = 1,
                            !.attempts = @ + 1]
            ELSE IF autoInstallAttempted THEN LoaderReturns(in, "previously_attempted", FALSE)
            ELSE LoaderReturns(in, "not_attempted", FALSE)
       /\ UNCHANGED <<adminVars, page, hides, clicks, editor>>

\* The themes query is answered.
ThemesAnswered(o) ==
    /\ install.lpc = "themes"
    /\ install' =
         CASE o = "throw" -> LoaderReturns(install, "error", FALSE)
           [] o = "errors" \/ ~install.theme.main ->
                LoaderReturns(install, "no_active_theme", FALSE)
           [] OTHER -> [install EXCEPT !.lpc = "files", !.run.reads = @ + 1]
    /\ UNCHANGED <<adminVars, page, hides, clicks, editor>>

\* The files query is answered: the first product template is parsed, looked
\* through for the block and for a section to put it in.
FilesRead_noShortCircuit(in, i) ==
    IF i = 0 THEN LoaderReturns(in, "no_product_template", FALSE)
    ELSE IF ~in.theme.files[i].body.json THEN LoaderReturns(in, "invalid_template_json", FALSE)
    ELSE IF ~in.theme.files[i].body.section THEN LoaderReturns(in, "no_suitable_section", FALSE)
    ELSE [in EXCEPT !.lpc = "upsert", !.target = i, !.run.writes = @ + 1,
                    !.run.read = in.theme.files[i].body]
FilesRead(in, i) ==
    IF i = 0 THEN LoaderReturns(in, "no_product_template", FALSE)
    ELSE IF ~in.theme.files[i].body.json THEN LoaderReturns(in, "invalid_template_json", FALSE)
    ELSE IF in.theme.files[i].body.ours > 0
         THEN [in EXCEPT !.lpc = "mark", !.pending = "already_installed"]
    ELSE IF ~in.theme.files[i].body.section THEN LoaderReturns(in, "no_suitable_section", FALSE)
    ELSE [in EXCEPT !.lpc = "upsert", !.target = i, !.run.writes = @ + 1,
                    !.run.read = in.theme.files[i].body]

FilesAnswered(o) ==
    /\ install.lpc = "files"
    /\ install' =
         CASE o = "throw" -> LoaderReturns(install, "error", FALSE)
           [] o = "errors" -> LoaderReturns(install, "no_theme_files", FALSE)
           [] OTHER -> FilesRead(install, FirstProductTemplate(install.theme.files, 1))
    /\ UNCHANGED <<adminVars, page, hides, clicks, editor>>

\* What autoInstallAppBlock makes of the answer of themeFilesUpsert: only
\* userErrors.length > 0 is tested.
UpsertRejected_always(o) == TRUE
UpsertRejected(o) == o = "userErrors"

\* themeFilesUpsert is answered.
UpsertAnswered(o) ==
    /\ install.lpc = "upsert"
    /\ install' =
         LET in == [install EXCEPT !.theme = Upsert(@, install.target, install.run.read, o),
                                   !.run.upsert = o]
         IN CASE o = "throw" -> LoaderReturns(in, "error", FALSE)
              [] UpsertRejected(o) -> LoaderReturns(in, "update_failed", FALSE)
              [] OTHER -> [in EXCEPT !.lpc = "mark", !.pending = "installed"]
    /\ UNCHANGED <<adminVars, page, hides, clicks, editor>>

\* markAutoInstallComplete: metafieldsSet is answered; its answer is not
\* looked at and its exception is caught.
MarkAnswered(o) ==
    /\ install.lpc = "mark"
    /\ install' = LoaderReturns([install EXCEPT !.sentinel = @ \/ o = "ok", !.run.mark = o],
                                install.pending, TRUE)
    /\ UNCHANGED <<adminVars, page, hides, clicks, editor>>

NextInstall ==
    \/ \E o \in ReadOutcomes : LoaderStarts(o)
    \/ \E o \in ReadOutcomes : SentinelAnswered(o)
    \/ \E o \in ReadOutcomes : ThemesAnswered(o)
    \/ \E o \in ReadOutcomes : FilesAnswered(o)
    \/ \E o \in Outcomes : UpsertAnswered(o)
    \/ \E o \in Outcomes : MarkAnswered(o)

\* Loader runs one after the other, on any theme, with or without sentinel.
SpecInstall == InitInstall /\ [][NextInstall]_vars

\* ------------------------------------------------------------------------
\* Two loader invocations at the same time
\* ------------------------------------------------------------------------
\* What one invocation holds between its awaits.
Registers(in) == [lpc |-> in.lpc, target |-> in.target, pending |-> in.pending, run |-> in.run]

\* Two invocations on one shop: the sentinel and the theme are shared, the
\* registers of the invocation that takes the next step are the fields of
\* `install`, those of the other one are kept in `other`.
InitOverlap ==
    /\ store = [p \in Products |-> SavedEntries]
    /\ nextId = FirstFreeId
    /\ pc = [s \in Slots |-> "idle"]
    /\ loc = [s \in Slots |-> NoLoc]
    /\ sent = [s \in Slots |-> NoSent]
    /\ inflight = [s \in Slots |-> {}]
    /\ calls = [s \in Slots |-> <<>>]
    /\ seen = [s \in Slots |-> {}]
    /\ result = [s \in Slots |-> NoResult]
    /\ solo = [s \in Slots |-> TRUE]
    /\ loaded = NotLoaded
    /\ lastWriter = [p \in Products |-> "none"]
    /\ page = NoPage
    /\ hides = <<>>
    /\ clicks = <<>>
    /\ \E sentinel \in BOOLEAN, theme \in Themes :
          install = InstallOf(sentinel, theme)
                      @@ [other |-> Registers(InstallOf(sentinel, theme)), started |-> theme]
    /\ editor = NoEditor

\* The next answer to arrive is one for the other invocation.
OtherInvocation ==
    /\ install.lpc # install.other.lpc \/ install.run # install.other.run
    /\ install' = [install EXCEPT !.lpc = install.other.lpc,
                                  !.target = install.other.target,
                                  !.pending = install.other.pending,
                                  !.run = install.other.run,
                                  !.other = Registers(install)]
    /\ UNCHANGED <<adminVars, page, hides, clicks, editor>>

NextOverlap ==
    \/ NextInstall
    \/ OtherInvocation

\* Loader runs of two invocations, their theme reads and writes interleaved.
SpecOverlap == InitOverlap /\ [][NextOverlap]_vars

\* ------------------------------------------------------------------------
\* autoInstallAppBlock: the place of the new block in block_order
\* ------------------------------------------------------------------------
\* String.prototype.includes
Includes(s, sub) ==
    \E i \in 0..(Len(s) - Len(sub)) : SubSeq(s, i + 1, i + Len(sub)) = sub
toLowerCase(s) == [i \in DOMAIN s |-> ToLower(s[i])]

\* The test of the first findIndex, on a block id and its lower-cased type.
IsCartLike_substringsOnly(id, blockType) ==
    \/ Includes(blockType, <<"b", "u", "y", "_", "b", "u", "t", "t", "o", "n", "s">>)
    \/ Includes(blockType, <<"p", "r", "o", "d", "u", "c", "t", "_", "f", "o", "r", "m">>)
    \/ Includes(blockType, <<"a", "d", "d", "_", "t", "o", "_", "c", "a", "r", "t">>)
    \/ Includes(blockType, <<"c", "a", "r", "t", "_", "b", "u", "t", "t", "o", "n">>)
    \/ Includes(blockType, <<"p", "u", "r", "c", "h", "a", "s", "e">>)
    \/ Includes(blockType, <<"c", "h", "e", "c", "k", "o", "u", "t">>)
    \/ Includes(blockType, <<"@", "a", "p", "p">>)
    \/ Includes(id, <<"b", "u", "y">>)
    \/ Includes(id, <<"c", "a", "r", "t">>)
    \/ Includes(id, <<"p", "u", "r", "c", "h", "a", "s", "e">>)
IsCartLike(id, blockType) ==
    \/ Includes(blockType, <<"b", "u", "y", "_", "b", "u", "t", "t", "o", "n", "s">>)
    \/ Includes(blockType, <<"p", "r", "o", "d", "u", "c", "t", "_", "f", "o", "r", "m">>)
    \/ Includes(blockType, <<"a", "d", "d", "_", "t", "o", "_", "c", "a", "r", "t">>)
    \/ Includes(blockType, <<"c", "a", "r", "t", "_", "b", "u", "t", "t", "o", "n">>)
    \/ Includes(blockType, <<"p", "u", "r", "c", "h", "a", "s", "e">>)
    \/ Includes(blockType, <<"c", "h", "e", "c", "k", "o", "u", "t">>)
    \/ blockType = <<"b", "u", "y", "_", "b", "u", "t", "t", "o", "n", "s">>
    \/ blockType = <<"p", "r", "o", "d", "u", "c", "t", "-", "f", "o", "r", "m">>
    \/ blockType = <<"s", "h", "o", "p", "i", "f", "y", ":", "/", "/", "a", "p", "p", "s", "/",
                     "p", "r", "o", "d", "u", "c", "t", "-", "f", "o", "r", "m">>
    \/ Includes(blockType, <<"@", "a", "p", "p">>)
    \/ blockType = <<"b", "u", "y", "_", "b", "u", "t", "t", "o", "n", "s", "@",
                     "p", "r", "o", "d", "u", "c", "t", "-", "f", "o", "r", "m">>
    \/ Includes(id, <<"b", "u", "y">>)
    \/ Includes(id, <<"c", "a", "r", "t">>)
    \/ Includes(id, <<"p", "u", "r", "c", "h", "a", "s", "e">>)

\* The test of the second findIndex.
IsFormElement(id, blockType) ==
    \/ Includes(blockType, <<"q", "u", "a", "n", "t", "i", "t", "y">>)
    \/ Includes(blockType, <<"v", "a", "r", "i", "a", "n", "t">>)
    \/ Includes(blockType, <<"p", "i", "c", "k", "e", "r">>)
    \/ Includes(id, <<"q", "u", "a", "n", "t", "i", "t", "y">>)
    \/ Includes(id, <<"v", "a", "r", "i", "a", "n", "t">>)

\* section.blocks of the sample section: block id -> type.  An id of
\* block_order without a block reads as the type ''.
\* appBlockId, shortened to its last path segment's first word.
AppBlockType == <<"e", "x", "t", "e", "r", "n", "a", "l", "-", "b", "u", "t", "t", "o", "n", "-", "b", "l", "o", "c", "k">>
TextType == <<"t", "e", "x", "t">>
SectionBlocks ==
    { [id |-> <<"c", "a", "r", "t">>, type |-> TextType],
      [id |-> <<"a">>, type |-> <<"B", "u", "y", "_", "B", "u", "t", "t", "o", "n", "s">>],
      [id |-> <<"p">>, type |-> <<"p", "r", "o", "d", "u", "c", "t", "-", "f", "o", "r", "m">>],
      [id |-> <<"q">>, type |-> <<"v", "a", "r", "i", "a", "n", "t", "_", "p", "i", "c", "k", "e", "r">>],
      [id |-> <<"v", "a", "r", "i", "a", "n", "t">>, type |-> TextType],
      [id |-> <<"t">>, type |-> TextType] }
OrderIds == {b.id : b \in SectionBlocks} \cup {<<"m">>}

\* section.blocks[id]?.type?.toLowerCase() || ''
BlockTypeOf(blocks, id) ==
    IF \E b \in blocks : b.id = id
    THEN toLowerCase((CHOOSE b \in blocks : b.id = id).type)
    ELSE EmptyStr

\* Array.prototype.findIndex over block_order, counted from 0; -1 for none.
RECURSIVE FindCartLike(_, _, _)
FindCartLike(blocks, order, i) ==
    IF i > Len(order) THEN -1
    ELSE IF IsCartLike(order[i], BlockTypeOf(blocks, order[i])) THEN i - 1
    ELSE FindCartLike(blocks, order, i + 1)
RECURSIVE FindFormElement(_, _, _)
FindFormElement(blocks, order, i) ==
    IF i > Len(order) THEN -1
    ELSE IF IsFormElement(order[i], BlockTypeOf(blocks, order[i])) THEN i - 1
    ELSE FindFormElement(blocks, order, i + 1)

\* block_order.splice(start, 0, item); unshift is the splice at 0.
Splice(order, start, item) ==
    SubSeq(order, 1, start) \o <<item>> \o SubSeq(order, start + 1, Len(order))

\* `external_button_${Date.now()}`
NewBlockId == <<"e", "x", "t", "e", "r", "n", "a", "l", "_", "b", "u", "t", "t", "o", "n", "_", "1">>

\* The block_order after the insertion.
InsertAt(order, addToCartIndex, formElementIndex) ==
    IF addToCartIndex >= 0 THEN Splice(order, addToCartIndex + 1, NewBlockId)
    ELSE IF formElementIndex >= 0 THEN Splice(order, formElementIndex + 1, NewBlockId)
    ELSE Splice(order, 0, NewBlockId)
InsertedOrder(blocks, order) ==
    InsertAt(order, FindCartLike(blocks, order, 1), FindFormElement(blocks, order, 1))

\* The section autoInstallAppBlock found, before and after the insertion.
SectionOf(order) ==
    [lpc |-> "section", blocks |-> SectionBlocks, block_order |-> order,
     before |-> order, inserted |-> FALSE]

InitSection ==
    /\ store \in [Products -> {NoEntries}]
    /\ nextId = FirstFreeId
    /\ pc = [s \in Slots |-> "idle"]
    /\ loc = [s \in Slots |-> NoLoc]
    /\ sent = [s \in Slots |-> NoSent]
    /\ inflight = [s \in Slots |-> {}]
    /\ calls = [s \in Slots |-> <<>>]
    /\ seen = [s \in Slots |-> {}]
    /\ result = [s \in Slots |-> NoResult]
    /\ solo = [s \in Slots |-> TRUE]
    /\ loaded = NotLoaded
    /\ lastWriter = [p \in Products |-> "none"]
    /\ page = NoPage
    /\ hides = <<>>
    /\ clicks = <<>>
    /\ \E order \in SeqsUpTo(OrderIds, MaxBlocks) : install = SectionOf(order)
    /\ editor = NoEditor

\* Step 5 of autoInstallAppBlock on the section: the block is added to
\* section.blocks and its id put into block_order.
AddBlock ==
    /\ install.lpc = "section"
    /\ ~install.inserted
    /\ install' = [install EXCEPT
                     !.blocks = @ \cup {[id |-> NewBlockId, type |-> AppBlockType]},
                     !.block_order = InsertedOrder(install.blocks, install.block_order),
                     !.inserted = TRUE]
    /\ UNCHANGED <<adminVars, page, hides, clicks, editor>>

NextSection == AddBlock

SpecSection == InitSection /\ [][NextSection]_vars

\* ------------------------------------------------------------------------
\* The editor of one product and hasUnsavedChanges (part_003)
\* ------------------------------------------------------------------------
\* Both lists without their blank rows differ: in length, or at a position
\* in url, text or enabled.
LinksDiffer_lengthOnly(currentLinks, originalLinks) == Len(currentLinks) # Len(originalLinks)
LinksDiffer(currentLinks, originalLinks) ==
    \/ Len(currentLinks) # Len(originalLinks)
    \/ \E i \in DOMAIN currentLinks :
          \/ currentLinks[i].url # originalLinks[i].url
          \/ currentLinks[i].text # originalLinks[i].text
          \/ currentLinks[i].enabled # originalLinks[i].enabled

\* hasUnsavedChanges(productId) for a product that is both expanded and
\* among configuredProducts.
hasUnsavedChanges(expandedProduct, originalProduct) ==
    \/ expandedProduct.hideAtc # originalProduct.hideAtc
    \/ LinksDiffer(NonEmptyLinks(expandedProduct.externalLinks),
                   NonEmptyLinks(originalProduct.externalLinks))

\* What the inputs of a row can be set to.
UrlInputs == {EmptyStr, <<Space>>, <<"a">>}
TextInputs == {EmptyStr, <<"A">>}
NewRow == ExternalLink(EmptyStr, EmptyStr, TRUE)

\* toggleProductExpansion: the editor starts from the loaded product.
EditorOf(links, hide) ==
    [on |-> TRUE,
     original |-> [externalLinks |-> links, hideAtc |-> hide],
     expanded |-> [externalLinks |-> links, hideAtc |-> hide],
     unsaved |-> FALSE,
     blankOnly |-> TRUE]

InitEditor ==
    /\ store = [p \in Products |-> NoEntries]
    /\ nextId = FirstFreeId
    /\ pc = [s \in Slots |-> "idle"]
    /\ loc = [s \in Slots |-> NoLoc]
    /\ sent = [s \in Slots |-> NoSent]
    /\ inflight = [s \in Slots |-> {}]
    /\ calls = [s \in Slots |-> <<>>]
    /\ seen = [s \in Slots |-> {}]
    /\ result = [s \in Slots |-> NoResult]
    /\ solo = [s \in Slots |-> TRUE]
    /\ loaded = NotLoaded
    /\ lastWriter = [p \in Products |-> "none"]
    /\ page = NoPage
    /\ hides = <<>>
    /\ clicks = <<>>
    /\ install = NoInstall
    /\ \E links \in EditorLists, hide \in BOOLEAN : editor = EditorOf(links, hide)

\* The editor after a change of its rows or its flag; blankOnly records that
\* so far only rows with a blank url were added, relabelled or removed.
Edited(expanded, blankOnly) ==
    [editor EXCEPT !.expanded = expanded,
                   !.unsaved = hasUnsavedChanges(expanded, editor.original),
                   !.blankOnly = @ /\ blankOnly]

addExternalLink ==
    /\ editor.on
    /\ Len(editor.expanded.externalLinks) < MaxLinks
    /\ editor' = Edited([editor.expanded EXCEPT !.externalLinks = <<NewRow>> \o @], TRUE)
    /\ UNCHANGED <<adminVars, page, hides, clicks, install>>

updateExternalLink(index, field, value) ==
    /\ editor.on
    /\ index \in DOMAIN editor.expanded.externalLinks
    /\ editor' = Edited([editor.expanded EXCEPT !.externalLinks[index][field] = value],
                        field = "text" /\ isEmptyLink(editor.expanded.externalLinks[index]))
    /\ UNCHANGED <<adminVars, page, hides, clicks, install>>

removeExternalLink(index) ==
    /\ editor.on
    /\ index \in DOMAIN editor.expanded.externalLinks
    /\ editor' = Edited([editor.expanded EXCEPT !.externalLinks =
                            [i \in 1..(Len(@) - 1) |-> IF i < index THEN @[i] ELSE @[i + 1]]],
                        isEmptyLink(editor.expanded.externalLinks[index]))
    /\ UNCHANGED <<adminVars, page, hides, clicks, install>>

\* onChange of the hide checkbox.
setHideAtc(checked) ==
    /\ editor.on
    /\ editor' = Edited([editor.expanded EXCEPT !.hideAtc = checked], FALSE)
    /\ UNCHANGED <<adminVars, page, hides, clicks, install>>

NextEditor ==
    \/ addExternalLink
    \/ \E index \in 1..MaxLinks, value \in UrlInputs : updateExternalLink(index, "url", value)
    \/ \E index \in 1..MaxLinks, value \in TextInputs : updateExternalLink(index, "text", value)
    \/ \E index \in 1..MaxLinks, value \in BOOLEAN : updateExternalLink(index, "enabled", value)
    \/ \E index \in 1..MaxLinks : removeExternalLink(index)
    \/ \E checked \in BOOLEAN : setHideAtc(checked)

SpecEditor == InitEditor /\ [][NextEditor]_vars

\* ------------------------------------------------------------------------
\* The product picker (part_003)
\* ------------------------------------------------------------------------
\* The component's view: configuredProducts of the loader data it rendered
\* last, isLoadingPicker, and the configuredProducts the memoized
\* handleOpenProductPicker holds: useCallback makes a new callback only when
\* shopify or isLoadingPicker has changed, so `callback` is the list of the
\* render in which isLoadingPicker changed last, and `closure` the list of
\* the invocation that is running.
PickerOf(configuredProducts) ==
    [on |-> FALSE, picker |-> "idle", isLoadingPicker |-> FALSE, picks |-> 0,
     configuredProducts |-> configuredProducts, callback |-> configuredProducts,
     closure |-> {}, newProducts |-> {}, alreadyConfigured |-> {}, loaderFailed |-> FALSE]

\* The page as the first loader run, answered with data, rendered it.
InitPicker ==
    /\ store \in [Products -> {NoEntries, LegacyEntries(TrueStr), SavedEntries}]
    /\ nextId = FirstFreeId
    /\ pc = [s \in Slots |-> "idle"]
    /\ loc = [s \in Slots |-> NoLoc]
    /\ sent = [s \in Slots |-> NoSent]
    /\ inflight = [s \in Slots |-> {}]
    /\ calls = [s \in Slots |-> <<>>]
    /\ seen = [s \in Slots |-> {}]
    /\ result = [s \in Slots |-> NoResult]
    /\ solo = [s \in Slots |-> TRUE]
    /\ loaded = Loaded("ok")
    /\ lastWriter = [p \in Products |-> "none"]
    /\ page = NoPage
    /\ hides = <<>>
    /\ clicks = <<>>
    /\ install = NoInstall
    /\ editor = PickerOf(ConfiguredProducts(store))

\* handleOpenProductPicker is called: setIsLoadingPicker(true), and the
\* resource picker opens.
handleOpenProductPicker ==
    /\ editor.picker = "idle"
    /\ ~editor.isLoadingPicker
    /\ editor.picks < MaxPicks
    /\ editor' = [editor EXCEPT !.picker = "picking", !.isLoadingPicker = TRUE,
                                !.picks = @ + 1,
                                !.closure = editor.callback,
                                !.callback = editor.configuredProducts,
                                !.newProducts = {}, !.alreadyConfigured = {}]
    /\ UNCHANGED <<adminVars, page, hides, clicks, install>>

\* newProducts and alreadyConfigured of a selection.
NewProducts(selection, configuredProducts) == selection \ configuredProducts

\* The resource picker resolves with a selection (none when it was closed).
PickerResolves ==
    /\ editor.picker = "picking"
    /\ \E selection \in SUBSET Products :
          editor' = [editor EXCEPT
                       !.picker = "submitting",
                       !.newProducts = NewProducts(selection, editor.closure),
                       !.alreadyConfigured = selection \cap editor.closure]
    /\ UNCHANGED <<adminVars, page, hides, clicks, install>>

\* The form the picker submits for a new product.
PickerForm(p) ==
    [actionType |-> "save", productId |-> p, linkCount |-> 0, rows |-> <<>>,
     hideAtc |-> EmptyStr]

\* The product was submitted by the running invocation.
Submitted(p) ==
    \E s \in Slots : sent[s].via = "picker" /\ sent[s].pick = editor.picks /\ loc[s].productId = p

\* The loop over newProducts: submit(formData) for the next one.  What the
\* product held when it was submitted is kept with the request.
PickerSubmits(s) ==
    /\ editor.picker = "submitting"
    /\ \E p \in editor.newProducts :
          /\ ~Submitted(p)
          /\ Begin(s, PickerForm(p),
                   [rows |-> <<>>, hide |-> FALSE, via |-> "picker", pick |-> editor.picks,
                    configured |-> ExistingKeys(store[p]) # {},
                    links |-> ProductData(store[p]).externalLinks,
                    loaderFailed |-> editor.loaderFailed])

\* The loop is through (or the picker threw): finally setIsLoadingPicker(false).
PickerFinishes ==
    /\ editor.picker = "submitting"
    /\ \A p \in editor.newProducts : Submitted(p)
    /\ editor' = [editor EXCEPT !.picker = "idle", !.isLoadingPicker = FALSE,
                                !.callback = editor.configuredProducts]
    /\ UNCHANGED <<adminVars, page, hides, clicks, install>>

\* The loader runs again and the component renders its data.
Revalidated(o) ==
    /\ loaded' = Loaded(o)
    /\ editor' = [editor EXCEPT !.configuredProducts = Loaded(o).configured,
                                !.loaderFailed = @ \/ o # "ok"]
    /\ UNCHANGED <<store, nextId, pc, loc, sent, inflight, calls, seen, result, solo, lastWriter>>
    /\ UNCHANGED <<page, hides, clicks, install>>

NextPicker ==
    \/ handleOpenProductPicker
    \/ PickerResolves
    \/ \E s \in Slots : PickerSubmits(s)
    \/ PickerFinishes
    \/ \E o \in ReadOutcomes : Revalidated(o)
    \/ \E s \in Slots, o \in ReadOutcomes : SaveReadAnswered(s, o)
    \/ \E s \in Slots, o \in Outcomes : SaveDeleteAnswered(s, o)
    \/ \E s \in Slots, o \in Outcomes : SaveUpdateAnswered(s, o)

\* Picks, the saves they submit and loader reloads, in any order.
SpecPicker == InitPicker /\ [][NextPicker]_vars

\* ------------------------------------------------------------------------
\* Properties
\* ------------------------------------------------------------------------
\* The request took the save branch, or the delete branch.
IsSave(s) == loc[s].actionType = "save" /\ loc[s].productId \in Products
IsDelete(s) == loc[s].actionType = "delete" /\ loc[s].productId \in Products
SaveDone(s) == pc[s] = "done" /\ IsSave(s)
DeleteDone(s) == pc[s] = "done" /\ IsDelete(s)
Has(p, k) == store[p][k].id # 0
EmptyArrayText == <<Tok("[", <<>>), Tok("]", <<>>)>>

\* C1: the JSON array stored under external_links holds no record whose url
\* is empty after trimming.
C1_NoBlankUrlPersisted ==
    \A p \in Products :
        Has(p, "external_links") =>
            LET parsed == JSONparse(store[p]["external_links"].value)
            IN /\ parsed.ok
               /\ \A i \in DOMAIN parsed.val : Trim(parsed.val[i].url) # EmptyStr

\* C2: once a delete or update mutation of a save has been answered with
\* GraphQL errors or userErrors, the save has stopped: it issues no further
\* call and has returned success:false.
C2_SaveStopsOnMutationError ==
    \A s \in Slots :
        (IsSave(s) /\ seen[s] \cap {"delete", "update"} # {}) =>
            pc[s] = "done" /\ ~result[s].success

\* The key/value set a save aims at, and the one persisted for a product.
TargetOf(s) ==
    [k \in Keys |->
        CASE k = "external_links" -> JSONstringify(loc[s].externalLinks)
          [] k = "hide_atc" /\ loc[s].hideAtc -> TrueStr
          [] OTHER -> <<>>]
Persisted(p) == [k \in Keys |-> store[p][k].value]

BothSaved(p) ==
    \A s \in Slots : SaveDone(s) /\ result[s].success /\ loc[s].productId = p /\ seen[s] = {}

\* C3 as claimed: after two saves of one product, every call of which was
\* answered without error and wrote only to entries it had read or created,
\* the persisted key/value set is the target set of one of the two.
C3_NoMixture ==
    \A p \in Products :
        BothSaved(p) => \E s \in Slots : Persisted(p) = TargetOf(s)

\* C3 as amended: after two successful saves of one product, overlapping or
\* not, the persisted external_links value is the one of the save whose
\* productUpdate was applied last.
C3_LastUpdateWinsLinks ==
    \A p \in Products :
        (\A s \in Slots : SaveDone(s) /\ result[s].success /\ loc[s].productId = p) =>
            /\ lastWriter[p] \in Slots
            /\ store[p]["external_links"].value = JSONstringify(loc[lastWriter[p]].externalLinks)

\* Two saves that overlapped, with different links, the first to read being
\* the last to write.
C3_Witness ==
    \E p \in Products :
        /\ \A s \in Slots : SaveDone(s) /\ result[s].success /\ loc[s].productId = p /\ ~solo[s]
        /\ lastWriter[p] = SlotOrder[1]
        /\ loc[SlotOrder[1]].externalLinks # loc[SlotOrder[2]].externalLinks
        /\ Len(loc[SlotOrder[1]].externalLinks) > 1

\* C4: after a successful save that no other request overlapped (and whose
\* read of the entries was answered with data), hide_atc exists, with the value
\* "true", exactly when the request's hide flag was on.
C4_HideAtcIffFlag ==
    \A s \in Slots :
        (SaveDone(s) /\ result[s].success /\ solo[s] /\ "read" \notin seen[s]) =>
            LET p == loc[s].productId
            IN /\ Has(p, "hide_atc") <=> loc[s].hideAtc
               /\ Has(p, "hide_atc") => store[p]["hide_atc"].value = TrueStr

\* The save has read the entries and gone on.
PastRead(s) == IsSave(s) /\ Len(calls[s]) > 1
KeysRead(s) == {k \in Keys : loc[s].existing[k] # 0}

\* C5: the keys a save deletes are the keys it read that are neither
\* external_links nor, with the flag on, hide_atc; legacy keys read are always
\* among them; and the delete mutation is issued exactly when there are any.
C5_DeleteSet ==
    \A s \in Slots :
        PastRead(s) =>
            /\ loc[s].toDelete =
                  (KeysRead(s) \ {"external_links"}) \ (IF loc[s].hideAtc THEN {"hide_atc"} ELSE {})
            /\ KeysRead(s) \cap LegacyKeys \subseteq loc[s].toDelete
            /\ "external_links" \notin loc[s].toDelete
            /\ (calls[s][2] = "delete") <=> (loc[s].toDelete # {})
            /\ \A i \in DOMAIN calls[s] : calls[s][i] = "delete" => i = 2

C5_Witness ==
    \E s \in Slots :
        /\ PastRead(s) /\ pc[s] = "saveDelete"
        /\ loc[s].toDelete = {"hide_atc"}
        /\ KeysRead(s) = {"external_links", "hide_atc"}

\* C6: a save with no links and the hide flag off sends external_links with
\* the value "[]"; when it succeeds the product holds that entry, and a loader
\* run after it lists the product.
EmptySave(s) ==
    /\ SaveDone(s) /\ result[s].success /\ solo[s]
    /\ loc[s].externalLinks = <<>> /\ ~loc[s].hideAtc

C6_EmptySaveStaysConfigured ==
    \A s \in Slots :
        /\ (PastRead(s) /\ loc[s].externalLinks = <<>> /\ ~loc[s].hideAtc) =>
              /\ SentKeys(loc[s].toSave) = {"external_links"}
              /\ loc[s].toSave["external_links"].value = EmptyArrayText
        /\ EmptySave(s) =>
            /\ Has(loc[s].productId, "external_links")
            /\ store[loc[s].productId]["external_links"].value = EmptyArrayText
            /\ loaded.status = "ok" => loc[s].productId \in loaded.configured

C6_Witness ==
    \E s \in Slots :
        /\ EmptySave(s) /\ loaded.status = "ok"
        /\ ExistingKeys(store[loc[s].productId]) = {"external_links"}
        /\ loc[s].existing = NoExisting

\* C7: the calls of one save are read, then the delete mutation if any, then
\* productUpdate, each issued when the one before has been answered: no two
\* are in flight together.
IsPrefix(a, b) == Len(a) <= Len(b) /\ SubSeq(b, 1, Len(a)) = a

C7_CallsSequential ==
    \A s \in Slots :
        IsSave(s) =>
            /\ Cardinality(inflight[s]) <= 1
            /\ \/ IsPrefix(calls[s], <<"read", "delete", "update">>)
               \/ IsPrefix(calls[s], <<"read", "update">>)
            /\ Active(s) => inflight[s] = {calls[s][Len(calls[s])]}

C7_Witness ==
    \E s \in Slots :
        /\ calls[s] = <<"read", "delete", "update">>
        /\ inflight[s] = {"update"}
        /\ \E t \in Slots \ {s} : Active(t)

\* C8: after a successful delete that no other request overlapped the product
\* has no entries and a loader run does not list it; a delete that read no
\* entries succeeds with no call but the read.
C8_DeleteRemovesAll ==
    \A s \in Slots :
        /\ (DeleteDone(s) /\ result[s].success /\ solo[s]) =>
              /\ ExistingKeys(store[loc[s].productId]) = {}
              /\ loaded.status = "ok" => loc[s].productId \notin loaded.configured
        /\ (DeleteDone(s) /\ seen[s] = {} /\ KeysRead(s) = {}) =>
              result[s].success /\ calls[s] = <<"read">>

C8_Witness ==
    \E s \in Slots :
        /\ DeleteDone(s) /\ result[s].success /\ solo[s]
        /\ calls[s] = <<"read", "delete">>
        /\ "external_links" \in KeysRead(s)
        /\ loaded.status = "ok"

C8_WitnessAlreadyRemoved ==
    \E s \in Slots : DeleteDone(s) /\ seen[s] = {} /\ KeysRead(s) = {} /\ loaded.status = "ok"

\* C9: for a product that has the three legacy keys and no external_links the
\* loader returns a list of one link made of the legacy values.
LegacyOnly(p) == ExistingKeys(store[p]) = LegacyKeys

C9_LegacyReadAsOneLink ==
    \A p \in Products :
        (loaded.status = "ok" /\ LegacyOnly(p)) =>
            loaded.data[p].externalLinks =
                << ExternalLink(store[p]["external_url"].value, store[p]["button_text"].value,
                                store[p]["is_enabled"].value = TrueStr) >>

\* C10: a loader run after a successful save returns the links that were
\* submitted, none of which has a blank url: same length, same order, same
\* url, text and enabled at every position.
RoundTrip(s) ==
    /\ SaveDone(s) /\ result[s].success /\ solo[s]
    /\ \A i \in DOMAIN sent[s].rows : Trim(sent[s].rows[i].url) # EmptyStr
    /\ loaded.status = "ok"

C10_RoundTrip ==
    \A s \in Slots :
        RoundTrip(s) => loaded.data[loc[s].productId].externalLinks = sent[s].rows

C10_Witness ==
    \E s \in Slots : RoundTrip(s) /\ sent[s].rows = <<LinkC, LinkA>> /\ sent[s].via = "native"

\* ------------------------------------------------------------------------
\* Properties of the storefront script
\* ------------------------------------------------------------------------
\* An init call has gone through the container.
Inited == page.inits > 0
IsArray(parsed) == parsed.ok /\ parsed.val.t = "array"
ParsedArray(toks) == HasData(toks) /\ IsArray(ParsePayload(toks))

\* The entries the contract renders: enabled is the boolean true and url is a
\* string that is not blank.
StrictlyEnabled(link) ==
    /\ link.t = "object"
    /\ Get(link, "enabled").t = "boolean" /\ Get(link, "enabled").b
    /\ Get(link, "url").t = "string" /\ Trim(Get(link, "url").s) # EmptyStr
RECURSIVE StrictLinks(_)
StrictLinks(elems) ==
    IF elems = <<>> THEN <<>>
    ELSE IF StrictlyEnabled(Head(elems)) THEN <<Head(elems)>> \o StrictLinks(Tail(elems))
    ELSE StrictLinks(Tail(elems))

\* C11: after init rendered a payload that is an array, the container holds
\* one button per entry whose enabled is strictly true and whose url is not
\* blank, in payload order, and none for any other entry.
C11_OnlyStrictlyEnabledRendered ==
    (Inited /\ ParsedArray(page.payload)) =>
        page.buttons = Buttons(StrictLinks(ParsePayload(page.payload).val.m))

\* The payloads of C12: empty or blank, "[]", unparseable by both attempts,
\* or JSON that is not an array.
NothingToRender(toks) == ~HasData(toks) \/ ~IsArray(ParsePayload(toks))

\* C12: for such a payload every init call runs to its end and the container
\* holds no button afterwards.
C12_BadPayloadRendersNothing ==
    (Inited /\ NothingToRender(page.payload)) => page.buttons = <<>>
IsObject(parsed) == parsed.ok /\ parsed.val.t = "object"
C12_Witness ==
    /\ Inited
    /\ HasData(page.payload)
    /\ IsObject(ParsePayload(page.payload))
    /\ page.buttons = <<>>
C12_WitnessUnparseable ==
    Inited /\ HasData(page.payload) /\ ~ParsePayload(page.payload).ok /\ page.buttons = <<>>

\* C13: no init call after the first has cleared or re-created the buttons of
\* the container or started the hide procedure for it again.
C13_RenderedIsTerminal == ~page.redone

\* C14: of every initHideATC call at most maxAttempts passes run; a pass is
\* scheduled only after a pass that hid nothing, with passes left; at most one
\* clearifyATCHideComplete is dispatched, with the count of the last pass and
\* the number of passes ...
C14_HideSafe ==
    \A i \in DOMAIN hides :
        /\ hides[i].attempts \in 1..maxAttempts
        /\ hides[i].timer => (hides[i].hiddenCount = 0 /\ hides[i].attempts < maxAttempts
                              /\ hides[i].events = <<>>)
        /\ Len(hides[i].events) <= 1
        /\ ~hides[i].timer => Len(hides[i].events) = 1
        /\ hides[i].events # <<>> =>
               hides[i].events[1] = [hiddenCount |-> hides[i].hiddenCount,
                                     attempts |-> hides[i].attempts]
\* ... and exactly one is dispatched in the end.
C14_HideTerminates ==
    /\ []C14_HideSafe
    /\ \A i \in 1..MaxInits : [](Len(hides) >= i => <>(Len(hides) >= i /\ Len(hides[i].events) = 1))
C14_Witness ==
    \E i \in DOMAIN hides :
        hides[i].attempts = maxAttempts /\ hides[i].events # <<>> /\ hides[i].hiddenCount > 0

ParsesAsHttp(url) == url.ok /\ url.protocol \in HttpProtocols
\* C15: window.open is scheduled or called only for a data-external-url that
\* is not empty and parses as a URL whose protocol is http: or https:.
C15_OpensOnlyHttp ==
    \A i \in DOMAIN clicks :
        (clicks[i].pending \/ clicks[i].opened) =>
            /\ clicks[i].url.has /\ clicks[i].url.s # <<>>
            /\ ParsesAsHttp(NewURL(clicks[i].url.s))
C15_Witness ==
    \E i \in DOMAIN clicks :
        /\ clicks[i].url = Attr(ScriptUrl)
        /\ ~clicks[i].pending /\ ~clicks[i].opened
C15_WitnessOpened ==
    \E i \in DOMAIN clicks : clicks[i].opened /\ clicks[i].url = Attr(HttpUrl)

\* C16: a click on a button with a valid http(s) url leads to window.open
\* whatever tracking and the user message do, and no exception leaves the
\* handler.
C16_OpenNotBlocked ==
    \A i \in DOMAIN clicks :
        (clicks[i].url.has /\ isValidUrl(clicks[i].url.s)) =>
            /\ clicks[i].pending \/ clicks[i].opened
            /\ ~clicks[i].escaped

\* ------------------------------------------------------------------------
\* Properties of the auto-install
\* ------------------------------------------------------------------------
RunDone == install.lpc = "idle" /\ install.loads > 0

\* C17: the loader invokes autoInstallAppBlock only with the sentinel absent
\* and a configured product loaded; with the sentinel present it issues no
\* theme read and no theme write and reports previously_attempted.
C17_GatedBySentinel ==
    /\ install.run.invoked => (~install.run.sentinel /\ install.run.configured > 0)
    /\ (RunDone /\ install.run.sentinel) =>
           /\ install.run.reads = 0 /\ install.run.writes = 0
           /\ install.run.status = "previously_attempted"

\* C18: over loader runs whose sentinel queries were all answered,
\* autoInstallAppBlock is invoked at most once: after an attempt has ended,
\* in whatever outcome, no later loader run attempts again.
C18_OneShot == ~install.checkFailed => install.attempts <= 1

\* C19: the status installed is returned only after themeFilesUpsert was
\* answered without errors and without userErrors, and a rejected write
\* leaves the sentinel as it was.
C19_InstalledOnlyIfWritten ==
    /\ (RunDone /\ install.run.status = "installed") => install.run.upsert = "ok"
    /\ (RunDone /\ install.run.upsert \in {"errors", "userErrors"}) =>
           (~install.run.success /\ (install.sentinel => install.run.sentinel))

\* ------------------------------------------------------------------------
\* Properties of the editor
\* ------------------------------------------------------------------------
\* C20: hasUnsavedChanges is false exactly when the hide flags are equal and
\* the two lists without their blank-url rows are equal, row by row; so
\* after only adding, relabelling and removing blank-url rows it is false.
C20_UnsavedIffDiffers ==
    editor.on =>
        /\ ~editor.unsaved <=>
               /\ editor.expanded.hideAtc = editor.original.hideAtc
               /\ NonEmptyLinks(editor.expanded.externalLinks)
                      = NonEmptyLinks(editor.original.externalLinks)
        /\ editor.blankOnly => ~editor.unsaved
C20_Witness ==
    /\ editor.on
    /\ editor.blankOnly
    /\ editor.expanded.externalLinks # editor.original.externalLinks
    /\ NonEmptyLinks(editor.original.externalLinks) # <<>>
    /\ ~editor.unsaved

\* ------------------------------------------------------------------------
\* Properties of the save's upsert
\* ------------------------------------------------------------------------
\* The save's read was answered with data and nothing else has touched the
\* product since the request began.
ReadData(s) == PastRead(s) /\ "read" \notin seen[s] /\ solo[s]

\* C21: an entry a save upserts carries an id exactly when the save read an
\* entry under its key, and then that entry's id; a read answered with data
\* returns the entries present; no id sent is the id of an entry the save
\* names in its delete mutation, so the entry of every id sent is still there
\* when the delete has been applied.
C21_UpsertIds ==
    \A s \in Slots :
        PastRead(s) =>
            LET p == loc[s].productId
                toSave == loc[s].toSave
            IN /\ \A k \in SentKeys(toSave) : toSave[k].id = loc[s].existing[k]
               /\ \A k \in SentKeys(toSave), d \in loc[s].toDelete :
                     toSave[k].id # 0 => toSave[k].id # loc[s].existing[d]
               /\ (ReadData(s) /\ Len(calls[s]) = 2 /\ Active(s)) =>
                     \A k \in SentKeys(toSave) : toSave[k].id = store[p][k].id
               /\ (ReadData(s) /\ pc[s] = "saveUpdate") => IdsLive(store[p], toSave)

\* A save that read external_links and hide_atc, deleted hide_atc and is about
\* to update external_links in place.
C21_Witness ==
    \E s \in Slots :
        /\ ReadData(s) /\ pc[s] = "saveUpdate"
        /\ calls[s] = <<"read", "delete", "update">> /\ seen[s] = {}
        /\ loc[s].toDelete = {"hide_atc"}
        /\ loc[s].toSave["external_links"].id = loc[s].existing["external_links"]
        /\ loc[s].existing["external_links"] # 0

\* A save that read no entries and creates both.
C21_WitnessCreate ==
    \E s \in Slots :
        /\ ReadData(s) /\ pc[s] = "saveUpdate" /\ loc[s].existing = NoExisting
        /\ SentKeys(loc[s].toSave) = {"external_links", "hide_atc"}
        /\ ExistingKeys(store[loc[s].productId]) = {}

\* ------------------------------------------------------------------------
\* Properties of the block_order insertion
\* ------------------------------------------------------------------------
CartTypeWords ==
    { <<"b", "u", "y", "_", "b", "u", "t", "t", "o", "n", "s">>,
      <<"p", "r", "o", "d", "u", "c", "t", "_", "f", "o", "r", "m">>,
      <<"a", "d", "d", "_", "t", "o", "_", "c", "a", "r", "t">>,
      <<"c", "a", "r", "t", "_", "b", "u", "t", "t", "o", "n">>,
      <<"p", "u", "r", "c", "h", "a", "s", "e">>,
      <<"c", "h", "e", "c", "k", "o", "u", "t">>,
      <<"@", "a", "p", "p">> }
CartIdWords == { <<"b", "u", "y">>, <<"c", "a", "r", "t">>, <<"p", "u", "r", "c", "h", "a", "s", "e">> }
CartExactTypes ==
    { <<"p", "r", "o", "d", "u", "c", "t", "-", "f", "o", "r", "m">>,
      <<"s", "h", "o", "p", "i", "f", "y", ":", "/", "/", "a", "p", "p", "s", "/",
        "p", "r", "o", "d", "u", "c", "t", "-", "f", "o", "r", "m">> }
FormTypeWords ==
    { <<"q", "u", "a", "n", "t", "i", "t", "y">>, <<"v", "a", "r", "i", "a", "n", "t">>,
      <<"p", "i", "c", "k", "e", "r">> }
FormIdWords == { <<"q", "u", "a", "n", "t", "i", "t", "y">>, <<"v", "a", "r", "i", "a", "n", "t">> }

\* The type of the i-th listed block before the insertion, in lower case.
TypeAt(i) == BlockTypeOf(install.blocks \ {[id |-> NewBlockId, type |-> AppBlockType]}, install.before[i])
ContainsAny(s, words) == \E w \in words : Includes(s, w)

\* The positions of the cart-like blocks, by substrings only and with the
\* types matched as a whole, and those of the form-like blocks.
CartBySubstring ==
    {i \in DOMAIN install.before :
        ContainsAny(TypeAt(i), CartTypeWords) \/ ContainsAny(install.before[i], CartIdWords)}
CartPositions == CartBySubstring \cup {i \in DOMAIN install.before : TypeAt(i) \in CartExactTypes}
FormPositions ==
    {i \in DOMAIN install.before :
        ContainsAny(TypeAt(i), FormTypeWords) \/ ContainsAny(install.before[i], FormIdWords)}
First(positions) == CHOOSE i \in positions : \A j \in positions : i <= j
After(cart, form) == IF cart # {} THEN First(cart) ELSE IF form # {} THEN First(form) ELSE 0

\* The new id stands right after the first k old entries, the old entries
\* around it in their order.
PlacedAfter(k) ==
    /\ Len(install.block_order) = Len(install.before) + 1
    /\ install.block_order[k + 1] = NewBlockId
    /\ SubSeq(install.block_order, 1, k) \o SubSeq(install.block_order, k + 2, Len(install.block_order))
         = install.before

SectionDone == install.lpc = "section" /\ install.inserted

C22_WitnessForm ==
    SectionDone /\ CartPositions = {} /\ FormPositions # {} /\ First(FormPositions) = 2
C22_WitnessFront ==
    SectionDone /\ CartPositions = {} /\ FormPositions = {} /\ Len(install.before) = MaxBlocks

\* ------------------------------------------------------------------------
\* Properties of the auto-install: short-circuit and failures
\* ------------------------------------------------------------------------
\* The product template the attempt read held a block of the app.
HadOurBlock ==
    LET i == FirstProductTemplate(install.run.before.files, 1)
    IN /\ install.run.before.main /\ i > 0
       /\ install.run.before.files[i].body.json
       /\ install.run.before.files[i].body.ours > 0

\* The invoked attempt got as far as the template: themes and files answered.
ReadTemplate == install.run.invoked /\ install.run.reads = 2 /\ install.lpc \notin {"themes", "files"}
                /\ install.run.status \notin {"error", "no_active_theme", "no_theme_files"}

\* C23: an attempt that finds the block identifier in the product template
\* issues no themeFilesUpsert and leaves the theme as it was; it issues the
\* sentinel write, after which the sentinel exists when that write was
\* answered without error; and it returns success with already_installed.
C23_AlreadyInstalled ==
    (ReadTemplate /\ HadOurBlock) =>
        /\ install.run.writes = 0 /\ install.run.upsert = "none"
        /\ install.theme = install.run.before
        /\ install.lpc = "mark" \/ RunDone
        /\ RunDone =>
             /\ install.run.mark # "none"
             /\ install.run.mark = "ok" => install.sentinel
             /\ install.run.success /\ install.run.status = "already_installed"

C23_Witness ==
    /\ ReadTemplate /\ HadOurBlock /\ RunDone
    /\ ~install.run.sentinel /\ install.sentinel
    /\ install.run.status = "already_installed"

FailureStatuses ==
    {"no_active_theme", "no_theme_files", "no_product_template", "invalid_template_json",
     "no_suitable_section", "update_failed", "error"}
AttemptDone == RunDone /\ install.run.invoked

\* C24: an attempt that ends without success ends with one of the seven
\* failure tags, and only then; the theme is then as it was when the loader
\* run began, and the loader returns the configured products it loaded
\* together with that status.
C24_FailureLeavesTheme ==
    AttemptDone =>
        /\ ~install.run.success <=> install.run.status \in FailureStatuses
        /\ ~install.run.success =>
             /\ install.theme = install.run.before
             /\ loaded = Loaded("ok")
             /\ install.run.configured = Cardinality(loaded.configured)
             /\ loaded.configured # {}

\* A write the theme refused, and each of the other failures.
C24_Witness ==
    /\ AttemptDone /\ install.run.status = "update_failed"
    /\ install.run.upsert = "userErrors" /\ install.run.writes = 1
C24_WitnessNoSection == AttemptDone /\ install.run.status = "no_suitable_section"
C24_WitnessBadJson == AttemptDone /\ install.run.status = "invalid_template_json"
C24_WitnessNoTemplate == AttemptDone /\ install.run.status = "no_product_template"
C24_WitnessNoFiles == AttemptDone /\ install.run.status = "no_theme_files"
C24_WitnessNoTheme == AttemptDone /\ install.run.status = "no_active_theme"
C24_WitnessError == AttemptDone /\ install.run.status = "error" /\ install.run.upsert = "throw"

\* ------------------------------------------------------------------------
\* Properties of the observer's debounce
\* ------------------------------------------------------------------------
\* C25: at most one re-init timeout is set at any time; it is due initDelay
\* after the last childList mutation; every init the timeout started ran
\* initDelay after the last mutation before it; and a burst of mutations, each
\* less than initDelay after the one before, has started exactly one init
\* once its timeout has fired.
C25_Debounce ==
    /\ Cardinality(page.timers) <= 1
    /\ page.timers # {} => page.timers = {page.lastMutation + initDelay}
    /\ \A i \in DOMAIN page.fires : page.fires[i].at = page.fires[i].lastMutation + initDelay
    /\ page.timerInits + Cardinality(page.timers) = page.bursts
    /\ page.timerInits = Len(page.fires)

\* A burst of two mutations of other scripts, the second TimeStep after the
\* first, on a page where init renders nothing: one init, initDelay after
\* the second.
C25_Witness ==
    /\ page.mutations = 2 /\ page.bursts = 1 /\ page.timers = {}
    /\ page.fires = <<[at |-> page.lastMutation + initDelay, lastMutation |-> page.lastMutation]>>
    /\ page.lastMutation >= TimeStep
    /\ page.buttons = <<>>

\* The container holds a link init renders.
HasEnabledLink == renderExternalButtons(page.payload) # <<>>

RenderKeepsTimeoutSet ==
    (page.script = "ran" /\ page.ready = "loading" /\ page.buttons # <<>>) => page.timers # {}

\* ------------------------------------------------------------------------
\* Properties of the action's results
\* ------------------------------------------------------------------------
ResultKinds ==
    {"saved", "saveFailed", "removed", "alreadyRemoved", "fetchFailed", "deleteFailed",
     "exception", "invalid"}

\* C26: a handled request ends with a result that has a success flag; once a
\* GraphQL call of a request has thrown, the request has ended with
\* success:false from the catch block, that call was its last and none is in
\* flight; a request without productId, or with an actionType that is neither
\* save nor delete, ends with success:false and has issued no call.
C26_UniformResult ==
    \A s \in Slots :
        /\ pc[s] = "done" =>
              result[s].success \in BOOLEAN /\ result[s].kind \in ResultKinds
        /\ "throw" \in seen[s] =>
              /\ pc[s] = "done" /\ ~result[s].success /\ result[s].kind = "exception"
              /\ inflight[s] = {}
              /\ calls[s][Len(calls[s])] \in seen[s]
        /\ result[s].kind = "exception" => "throw" \in seen[s]
        /\ (pc[s] # "idle" /\ ~IsSave(s) /\ ~IsDelete(s)) =>
              /\ pc[s] = "done" /\ ~result[s].success /\ result[s].kind = "invalid"
              /\ calls[s] = <<>> /\ inflight[s] = {}

\* A save whose productUpdate threw after its delete mutation went through.
C26_Witness ==
    \E s \in Slots :
        /\ IsSave(s) /\ seen[s] = {"update", "throw"}
        /\ calls[s] = <<"read", "delete", "update">>
        /\ result[s].kind = "exception"
\* A request without productId, and one with an unknown actionType.
C26_WitnessInvalid ==
    \E s \in Slots : pc[s] = "done" /\ loc[s].productId = NoProduct /\ result[s].kind = "invalid"
C26_WitnessOther ==
    \E s \in Slots : pc[s] = "done" /\ loc[s].actionType = "other" /\ result[s].kind = "invalid"

\* ------------------------------------------------------------------------
\* Properties of the save branch in src/app/routes/app._index.tsx
\* ------------------------------------------------------------------------
\* C27: after a successful save of that route with no links and the hide
\* flag off the product holds an external_links entry with the value "[]".
C27_IndexEmptySaveKeepsEntry ==
    \A s \in Slots :
        EmptySave(s) =>
            /\ Has(loc[s].productId, "external_links")
            /\ store[loc[s].productId]["external_links"].value = EmptyArrayText

\* ------------------------------------------------------------------------
\* Properties of the product picker
\* ------------------------------------------------------------------------
\* C29: with every loader run answered with data, the picker submits its
\* save with linkCount 0 only for a product that has no entry when it is
\* submitted, so never for one that has links.
C29_PickerSkipsConfigured ==
    \A s \in Slots :
        (sent[s].via = "picker" /\ ~sent[s].loaderFailed) =>
            ~sent[s].configured /\ sent[s].links = <<>>

\* ------------------------------------------------------------------------
\* Properties of overlapping auto-installs
\* ------------------------------------------------------------------------
\* The blocks of the app in the theme's files.
OurBlocks(theme) == { theme.files[i].body.ours : i \in 1..Len(theme.files) }

\* C30: a theme whose templates started without a block of the app holds
\* at most one of them in every template, whatever loader runs of the two
\* invocations have read and written, in whatever order.
C30_AtMostOneBlock ==
    OurBlocks(install.started) \subseteq {0} => OurBlocks(install.theme) \subseteq {0, 1}

\* Both invocations read the template without the block and both had
\* their themeFilesUpsert applied.
C30_Witness ==
    /\ OurBlocks(install.started) \subseteq {0}
    /\ install.run.upsert = "ok" /\ install.other.run.upsert = "ok"
    /\ install.run.read.ours = 0 /\ install.other.run.read.ours = 0
    /\ 1 \in OurBlocks(install.theme)

\* An attempt repeated because the sentinel was not written found the block.
C30_WitnessRepeated ==
    /\ OurBlocks(install.started) \subseteq {0}
    /\ ~install.sentinel
    /\ install.attempts >= 2
    /\ install.run.status = "already_installed"

====
